---------------------------- MODULE Spec2Model ----------------------------
(***************************************************************************)
(* Model of the PowerWorld auxiliary-file language support                 *)
(* (src/src/extension.ts): the line-oriented block detector, the           *)
(* quote/comment aware tokenizer, the header resolver, the SUBDATA region  *)
(* tracker and the validator state machine.                                *)
(*                                                                         *)
(* A JavaScript string is modelled as a sequence of one-character strings. *)
(* Offsets are the 0-based JavaScript offsets: the character at offset k   *)
(* of s is s[k+1].                                                         *)
(***************************************************************************)
EXTENDS Integers, Sequences, FiniteSets, TLC

VARIABLES
    files,                \* host: uri -> <<>> (no such file) or <<buffer>>, the text on disk
    documents,            \* host: uri -> <<>> (not open) or <<buffer>>, the open documents
    diagnosticCollection, \* host: uri -> <<>> (no entry) or <<diagnostics>>
    pc,                   \* "idle" | "scan": position of the validateDocument call
    document,             \* uri of the document of the call in progress
    lines,                \* document.getText().split('\n'): the lines of the call in progress,
                          \* or the document a provider or utility is asked about
    i,                    \* validateDocument: loop index (0-based)
    insideDataBlock,      \* validateDocument locals
    insideScriptBlock,
    currentDataBlockInfo, \* <<>> (undefined) or <<[blockName, parameters]>>
    unclosedScriptBlock,  \* <<>> (undefined) or <<[line, name]>>
    unclosedDataBlock,    \* <<>> (undefined) or <<[line, name]>>
    diagnostics,          \* validateDocument: the diagnostics array of the call
    calls,                \* history: the completed calls, [uri, buffer, diagnostics]
    textDocuments,        \* activate: the documents open at activation that its forEach has yet to visit
    text,                 \* tokenizer harness: the argument string
    fields,               \* tokenizer harness: <<>> or <<parseDataLine(text)>>
    stripped,             \* tokenizer harness: <<>> or <<removeEndOfLineComment(text)>>
    position,             \* the argument of a provider or utility call: <<>> or <<[line, character]>>
    endLine,              \* <<>> or <<findClosingBrace(lines, position.line)>>
    dataBlockInfo,        \* <<>> or <<findDataBlockHeader(document, position.line)>>
    symbols,              \* <<>> or <<the array provideDocumentSymbols returns>>
    hover,                \* <<>> or <<what provideHover returns>>
    scriptDetected,       \* <<>> or <<[lineIndex, info: detectScriptBlock(text, lineIndex)]>>
    dataDetected,         \* <<>> or <<detectDataBlock(text)>>
    insideSubdata,        \* <<>> or <<isInsideSubdataBlock(document, position.line)>>
    paramList,            \* <<>> or <<extractParameters(document, position.line)>>
    ranges,               \* <<>> or <<the array provideFoldingRanges returns>>
    helperResults         \* <<>> or <<[line, hover, validation]>>: the helpers of the two classes on one line

vars == <<files, documents, diagnosticCollection, pc, document, lines, i,
          insideDataBlock, insideScriptBlock, currentDataBlockInfo,
          unclosedScriptBlock, unclosedDataBlock, diagnostics, calls, textDocuments,
          text, fields, stripped,
          position, endLine, dataBlockInfo, symbols, hover, scriptDetected, dataDetected,
          insideSubdata, paramList, ranges, helperResults>>

scanVars == <<files, documents, diagnosticCollection, pc, document, lines, i,
              insideDataBlock, insideScriptBlock, currentDataBlockInfo,
              unclosedScriptBlock, unclosedDataBlock, diagnostics, calls, textDocuments>>

tokVars == <<text, fields, stripped>>
viewVars == <<position, endLine, dataBlockInfo, symbols, hover, scriptDetected, dataDetected,
              insideSubdata, paramList, ranges, helperResults>>

undefined == <<>>
Some(x) == <<x>>

\* the documents of the host
Uris == {"a.aux", "b.aux", "c.txt"}
\* document.languageId
languageId(u) == IF u = "c.txt" THEN "plaintext" ELSE "powerworld-aux"

-----------------------------------------------------------------------------
(* Characters and the JavaScript string primitives the code uses.          *)

UpperCase == <<"A","B","C","D","E","F","G","H","I","J","K","L","M",
               "N","O","P","Q","R","S","T","U","V","W","X","Y","Z">>
LowerCase == <<"a","b","c","d","e","f","g","h","i","j","k","l","m",
               "n","o","p","q","r","s","t","u","v","w","x","y","z">>
Digits == {"0","1","2","3","4","5","6","7","8","9"}
Letters == {UpperCase[k] : k \in 1..26} \cup {LowerCase[k] : k \in 1..26}

\* String.prototype.trim and the regex class \s: the white space of the model
WhiteSpace == {" ", "\t"}
IsSpace(c) == c \in WhiteSpace
\* regex class [A-Za-z_]
IsIdentStart(c) == c \in Letters \/ c = "_"
\* regex classes \w and [A-Za-z0-9_]
IsWord(c) == c \in Letters \/ c \in Digits \/ c = "_"
\* String.prototype.toLowerCase on one character, the /i flag of the regexes
ToLower(c) ==
    IF \E k \in 1..26 : UpperCase[k] = c
    THEN LowerCase[CHOOSE k \in 1..26 : UpperCase[k] = c]
    ELSE c

Min(S) == CHOOSE x \in S : \A y \in S : x <= y
Max(S) == CHOOSE x \in S : \A y \in S : x >= y

\* s.substring(a, b) for 0 <= a <= b <= s.length
Substring(s, a, b) == SubSeq(s, a + 1, b)
\* s.substring(a)
SubstringFrom(s, a) == SubSeq(s, a + 1, Len(s))

\* s.trim()
Trim(s) ==
    LET keep == {k \in 1..Len(s) : ~IsSpace(s[k])}
    IN  IF keep = {} THEN <<>> ELSE SubSeq(s, Min(keep), Max(keep))
\* s.trimEnd()
TrimEnd(s) ==
    LET keep == {k \in 1..Len(s) : ~IsSpace(s[k])}
    IN  IF keep = {} THEN <<>> ELSE SubSeq(s, 1, Max(keep))

\* s.startsWith(p), s.endsWith(p)
StartsWith(s, p) == Len(p) <= Len(s) /\ SubSeq(s, 1, Len(p)) = p
EndsWith(s, p) == Len(p) <= Len(s) /\ SubSeq(s, Len(s) - Len(p) + 1, Len(s)) = p

\* s.indexOf(p, from): the least offset >= from where p occurs, else -1
IndexOfFrom(s, p, from) ==
    LET hits == {k \in Max({from, 0})..(Len(s) - Len(p)) : SubSeq(s, k + 1, k + Len(p)) = p}
    IN  IF hits = {} THEN -1 ELSE Min(hits)
IndexOf(s, p) == IndexOfFrom(s, p, 0)
\* s.lastIndexOf(p)
LastIndexOf(s, p) ==
    LET hits == {k \in 0..(Len(s) - Len(p)) : SubSeq(s, k + 1, k + Len(p)) = p}
    IN  IF hits = {} THEN -1 ELSE Max(hits)

\* the concatenation of the strings of a sequence
RECURSIVE Flatten(_)
Flatten(ls) == IF ls = <<>> THEN <<>> ELSE Head(ls) \o Flatten(Tail(ls))

-----------------------------------------------------------------------------
(* Tokenizer: PowerWorldValidationProvider.removeEndOfLineComment and      *)
(* parseDataLine.                                                          *)

\* the quote toggle test shared by both scanners:
\*   char === '"' && (i === 0 || lineText[i-1] !== '\\')
IsQuoteToggle(lineText, k) ==
    lineText[k + 1] = "\"" /\ (k = 0 \/ lineText[k] # "\\")

\* mutant of IsCommentStart: the quote state is not consulted
IsCommentStartAnywhere(lineText, k, inQuotes) ==
    /\ lineText[k + 1] = "/"
    /\ k + 1 < Len(lineText)
    /\ lineText[k + 2] = "/"

\* the `//` test of removeEndOfLineComment
IsCommentStart(lineText, k, inQuotes) ==
    /\ lineText[k + 1] = "/"
    /\ k + 1 < Len(lineText)
    /\ lineText[k + 2] = "/"
    /\ ~inQuotes

RECURSIVE RemoveCommentLoop(_, _, _)
RemoveCommentLoop(lineText, k, inQuotes) ==
    IF k >= Len(lineText) THEN lineText
    ELSE IF IsQuoteToggle(lineText, k)
         THEN RemoveCommentLoop(lineText, k + 1, ~inQuotes)
    ELSE IF IsCommentStart(lineText, k, inQuotes)
         THEN Trim(Substring(lineText, 0, k))
    ELSE RemoveCommentLoop(lineText, k + 1, inQuotes)

removeEndOfLineComment(lineText) == RemoveCommentLoop(lineText, 0, FALSE)

\* mutant of IsFieldSeparator: a space separates fields inside quotes too
IsFieldSeparatorAnywhere(lineText, k, inQuotes) == lineText[k + 1] = " "

\* the separator test of parseDataLine: char === ' ' && !inQuotes
IsFieldSeparator(lineText, k, inQuotes) ==
    lineText[k + 1] = " " /\ ~inQuotes

\* if (current.trim().length > 0) { fields.push(current.trim()); }
PushField(fs, current) ==
    IF Len(Trim(current)) > 0 THEN Append(fs, Trim(current)) ELSE fs

RECURSIVE ParseDataLineLoop(_, _, _, _, _)
ParseDataLineLoop(lineText, k, inQuotes, current, fs) ==
    IF k >= Len(lineText) THEN PushField(fs, current)
    ELSE LET char == lineText[k + 1] IN
         IF IsQuoteToggle(lineText, k)
         THEN ParseDataLineLoop(lineText, k + 1, ~inQuotes, Append(current, char), fs)
         ELSE IF IsFieldSeparator(lineText, k, inQuotes)
         THEN ParseDataLineLoop(lineText, k + 1, inQuotes,
                  IF Len(Trim(current)) > 0 THEN <<>> ELSE current,
                  PushField(fs, current))
         ELSE ParseDataLineLoop(lineText, k + 1, inQuotes, Append(current, char), fs)

parseDataLine(lineText) == ParseDataLineLoop(lineText, 0, FALSE, <<>>, <<>>)

-----------------------------------------------------------------------------
(* Regular-expression pieces.  Every pattern of the code is anchored at ^  *)
(* and is a concatenation of greedy pieces that cannot match in two ways,  *)
(* so each is matched left to right by these steps.                        *)

\* \s* from offset k: the offset of the first character that is not white space
SkipSpaces(s, k) ==
    LET stop == {j \in k..(Len(s) - 1) : ~IsSpace(s[j + 1])}
    IN  IF stop = {} THEN Len(s) ELSE Min(stop)
\* \w* from offset k: the offset of the first character that is not a word character
SkipWord(s, k) ==
    LET stop == {j \in k..(Len(s) - 1) : ~IsWord(s[j + 1])}
    IN  IF stop = {} THEN Len(s) ELSE Min(stop)
\* mutant of MatchesNoCase: the /i flag is missing and the literal is matched
\* as written in the pattern
MatchesExactCase(s, k, kw) ==
    /\ k + Len(kw) <= Len(s)
    /\ \A j \in 1..Len(kw) : s[k + j] = kw[j]

\* a literal at offset k, under the /i flag (kw is given in lower case)
MatchesNoCase(s, k, kw) ==
    /\ k + Len(kw) <= Len(s)
    /\ \A j \in 1..Len(kw) : ToLower(s[k + j]) = kw[j]
\* the character at offset k is c
CharIs(s, k, c) == k < Len(s) /\ s[k + 1] = c

KwScript == <<"s","c","r","i","p","t">>
KwData == <<"d","a","t","a">>
KwSubdataOpen == <<"<","s","u","b","d","a","t","a">>
KwSubdataClose == <<"<","/","s","u","b","d","a","t","a",">">>
UnnamedScript == <<"U","n","n","a","m","e","d"," ","S","c","r","i","p","t">>
NameDATA == <<"D","A","T","A">>

\* /^\s*script\s*(\w+)?\s*/i: [ok, name (<<>> when the group did not match), stop offset]
ScriptPrefix(s) ==
    LET p0 == SkipSpaces(s, 0)
        ok == MatchesNoCase(s, p0, KwScript)
        p1 == SkipSpaces(s, p0 + 6)
        p2 == SkipWord(s, p1)
        p3 == SkipSpaces(s, p2)
    IN  IF ok THEN [ok |-> TRUE, name |-> Substring(s, p1, p2), stop |-> p3]
        ELSE [ok |-> FALSE, name |-> <<>>, stop |-> 0]
\* lineText.match(/^\s*script\s*(\w+)?\s*\{/i)
MatchScriptBrace(s) == ScriptPrefix(s).ok /\ CharIs(s, ScriptPrefix(s).stop, "{")
\* lineText.match(/^\s*script\s*(\w+)?\s*$/i)
MatchScriptNoBrace(s) == ScriptPrefix(s).ok /\ ScriptPrefix(s).stop = Len(s)
\* scriptMatch[1] || 'Unnamed Script'
ScriptName(s) ==
    IF ScriptPrefix(s).name = <<>> THEN UnnamedScript ELSE ScriptPrefix(s).name

\* /^\s*DATA\s*\(/i
MatchDataParen(s) ==
    LET p0 == SkipSpaces(s, 0)
    IN  MatchesNoCase(s, p0, KwData) /\ CharIs(s, SkipSpaces(s, p0 + 4), "(")

\* /([A-Za-z_][A-Za-z0-9_]*)\s*\(/ matched at offset k: [ok, name]
IdentParenAt(s, k) ==
    LET p1 == SkipWord(s, k)
    IN  IF k < Len(s) /\ IsIdentStart(s[k + 1]) /\ CharIs(s, SkipSpaces(s, p1), "(")
        THEN [ok |-> TRUE, name |-> Substring(s, k, p1)]
        ELSE [ok |-> FALSE, name |-> <<>>]
\* mutant of MatchFunctionDef: the `\s*\(` after the name is missing
MatchFunctionDefNoParen(s) ==
    IF 0 < Len(s) /\ IsIdentStart(s[1])
    THEN [ok |-> TRUE, name |-> Substring(s, 0, SkipWord(s, 0))]
    ELSE [ok |-> FALSE, name |-> <<>>]

\* mutant of MatchFunctionDef: the name may be indented, as in the header
\* resolver's pattern
MatchFunctionDefIndented(s) == IdentParenAt(s, SkipSpaces(s, 0))

\* /^([A-Za-z_][A-Za-z0-9_]*)\s*\(/ : anchored at column 0
MatchFunctionDef(s) == IdentParenAt(s, 0)
\* /^\s*([A-Za-z_][A-Za-z0-9_]*)\s*\(/ : at any indentation
MatchStandard(s) == IdentParenAt(s, SkipSpaces(s, 0))

\* s.toLowerCase()
LowerString(s) == [k \in 1..Len(s) |-> ToLower(s[k])]

\* /^\s*DATA\s*\(\s*([A-Za-z_][A-Za-z0-9_]*)\s*,\s*\[([^\]]+)\]/i : [ok, blockName, paramText]
MatchDataHeader(s) ==
    LET p0 == SkipSpaces(s, 0)
        p1 == SkipSpaces(s, p0 + 4)
        p2 == SkipSpaces(s, p1 + 1)
        p3 == SkipWord(s, p2)
        p4 == SkipSpaces(s, p3)
        p5 == SkipSpaces(s, p4 + 1)
        close == IndexOfFrom(s, <<"]">>, p5 + 1)
        ok == /\ MatchesNoCase(s, p0, KwData)
              /\ CharIs(s, p1, "(")
              /\ p2 < Len(s) /\ IsIdentStart(s[p2 + 1])
              /\ CharIs(s, p4, ",")
              /\ CharIs(s, p5, "[")
              /\ close > p5 + 1
    IN  IF ok THEN [ok |-> TRUE, blockName |-> Substring(s, p2, p3),
                    paramText |-> Substring(s, p5 + 1, close)]
        ELSE [ok |-> FALSE, blockName |-> <<>>, paramText |-> <<>>]

\* /^\s*<\/SUBDATA>/i
MatchSubdataClose(s) == MatchesNoCase(s, SkipSpaces(s, 0), KwSubdataClose)
\* /^\s*<SUBDATA\s+[^>]*>/i
MatchSubdataOpen(s) ==
    LET p0 == SkipSpaces(s, 0)
    IN  /\ MatchesNoCase(s, p0, KwSubdataOpen)
        /\ p0 + 8 < Len(s) /\ IsSpace(s[p0 + 9])
        /\ IndexOfFrom(s, <<">">>, p0 + 9) # -1

-----------------------------------------------------------------------------
(* BlockDetectionUtils                                                     *)

detectScriptBlock(line, lineIndex) ==
    LET lineText == Trim(line)
        openBraceIndex == IndexOf(lineText, <<"{">>)
        closeBraceIndex == LastIndexOf(lineText, <<"}">>)
        afterBrace == SubstringFrom(lineText, openBraceIndex + 1)
    IN  IF MatchScriptBrace(lineText)
        THEN [type |-> "script-same-line",
              name |-> ScriptName(lineText),
              hasContent |-> /\ afterBrace # <<>>
                             /\ Trim(afterBrace) # <<>>
                             /\ ~StartsWith(Trim(afterBrace), <<"}">>),
              contentStartLine |-> lineIndex,
              isComplete |-> /\ openBraceIndex # -1
                             /\ closeBraceIndex # -1
                             /\ closeBraceIndex > openBraceIndex]
        ELSE IF MatchScriptNoBrace(lineText)
        THEN [type |-> "script-next-line",
              name |-> ScriptName(lineText),
              hasContent |-> FALSE,
              contentStartLine |-> lineIndex + 1,
              isComplete |-> FALSE]
        ELSE [type |-> "none", name |-> <<>>, hasContent |-> FALSE,
              contentStartLine |-> lineIndex, isComplete |-> FALSE]

detectDataBlock(line) ==
    LET lineText == Trim(line)
        functionDefMatch == MatchFunctionDef(line)
    IN  IF MatchDataParen(lineText)
        THEN [type |-> "data", name |-> NameDATA, hasParameters |-> TRUE]
        ELSE IF functionDefMatch.ok /\ LowerString(functionDefMatch.name) # KwData
        THEN [type |-> "function", name |-> functionDefMatch.name, hasParameters |-> TRUE]
        ELSE [type |-> "none", name |-> <<>>, hasParameters |-> FALSE]

detectSingleLineBlock(line) ==
    LET lineText == Trim(line)
        openBraceIndex == IndexOf(lineText, <<"{">>)
        closeBraceIndex == LastIndexOf(lineText, <<"}">>)
    IN  IF openBraceIndex # -1 /\ closeBraceIndex # -1 /\ closeBraceIndex > openBraceIndex
        THEN [isComplete |-> TRUE,
              content |-> Trim(Substring(lineText, openBraceIndex + 1, closeBraceIndex))]
        ELSE [isComplete |-> FALSE, content |-> <<>>]

\* mutant of IsBlockEnd: the count is tested after every brace, not only
\* after a closing one
IsBlockEndAtAnyBrace(braceCount, char) ==
    \/ char = "{" /\ braceCount + 1 = 0
    \/ char = "}" /\ braceCount - 1 = 0

\* `if (char === '}') { braceCount--; if (braceCount === 0) return i; }`:
\* the character char, met with the count braceCount, ends the search
IsBlockEnd(braceCount, char) == char = "}" /\ braceCount - 1 = 0

\* the inner `for (const char of line)` of findClosingBrace from offset k:
\* the count after the line, and whether the function returned on it
RECURSIVE BraceChars(_, _, _)
BraceChars(line, k, braceCount) ==
    IF k >= Len(line) THEN [braceCount |-> braceCount, done |-> FALSE]
    ELSE LET char == line[k + 1] IN
         IF IsBlockEnd(braceCount, char) THEN [braceCount |-> 0, done |-> TRUE]
         ELSE BraceChars(line, k + 1,
                  IF char = "{" THEN braceCount + 1
                  ELSE IF char = "}" THEN braceCount - 1
                  ELSE braceCount)

\* mutant of BraceLines: a search that runs off the end returns -1, not the
\* last line
RECURSIVE BraceLinesNoSentinel(_, _, _)
BraceLinesNoSentinel(ls, n, braceCount) ==
    IF n >= Len(ls) THEN -1
    ELSE LET after == BraceChars(ls[n + 1], 0, braceCount) IN
         IF after.done THEN n ELSE BraceLinesNoSentinel(ls, n + 1, after.braceCount)

\* the outer loop of findClosingBrace over the lines from n on
RECURSIVE BraceLines(_, _, _)
BraceLines(ls, n, braceCount) ==
    IF n >= Len(ls) THEN Len(ls) - 1
    ELSE LET after == BraceChars(ls[n + 1], 0, braceCount) IN
         IF after.done THEN n ELSE BraceLines(ls, n + 1, after.braceCount)

findClosingBrace(ls, startLine) == BraceLines(ls, startLine, 0)

-----------------------------------------------------------------------------
(* Header resolver: parseParameters, extractParameters,                    *)
(* findDataBlockHeader of PowerWorldValidationProvider.                    *)
(* PowerWorldDataFieldHoverProvider holds the same four methods, and       *)
(* isInsideSubdataBlock and parseDataLine, with the same text.             *)

\* s.split(c)
RECURSIVE Split(_, _)
Split(s, c) ==
    LET at == IndexOf(s, <<c>>)
    IN  IF at = -1 THEN <<s>>
        ELSE <<Substring(s, 0, at)>> \o Split(SubstringFrom(s, at + 1), c)

parseParameters(paramText) ==
    LET parts == Split(paramText, ",")
        trimmed == [k \in 1..Len(parts) |-> Trim(parts[k])]
    IN  SelectSeq(trimmed, LAMBDA param : Len(param) > 0)

\* the inner `for (const char of line)` of extractParameters; done marks the return
RECURSIVE ExtractChars(_, _, _)
ExtractChars(line, k, st) ==
    IF k >= Len(line) THEN st
    ELSE LET char == line[k + 1] IN
         IF char = "("
         THEN ExtractChars(line, k + 1,
                  [st EXCEPT !.parenCount = @ + 1, !.foundStart = TRUE])
         ELSE IF char = ")"
         THEN IF st.parenCount - 1 = 0 /\ st.foundStart
              THEN [st EXCEPT !.parenCount = @ - 1, !.done = TRUE]
              ELSE ExtractChars(line, k + 1, [st EXCEPT !.parenCount = @ - 1])
         ELSE IF st.foundStart /\ st.parenCount > 0
         THEN ExtractChars(line, k + 1, [st EXCEPT !.paramText = Append(@, char)])
         ELSE ExtractChars(line, k + 1, st)

\* the outer loop of extractParameters over the lines from n on
RECURSIVE ExtractLines(_, _, _)
ExtractLines(ls, n, st) ==
    IF n >= Len(ls) THEN <<>>
    ELSE LET after == ExtractChars(ls[n + 1], 0, st) IN
         IF after.done THEN parseParameters(after.paramText)
         ELSE ExtractLines(ls, n + 1,
                  IF after.foundStart /\ after.parenCount > 0
                  THEN [after EXCEPT !.paramText = Append(@, " ")]
                  ELSE after)

extractParameters(ls, startLine) ==
    ExtractLines(ls, startLine,
        [paramText |-> <<>>, parenCount |-> 0, foundStart |-> FALSE, done |-> FALSE])

\* `if (blockName.toLowerCase() === 'data') continue;`: the line is passed
\* over and the backward scan goes on with the line above
IsDataCallName(blockName) == LowerString(blockName) = KwData

\* mutant of IsHeaderScanStop: a line holding `{` ends the scan too, as it
\* does in isInsideSubdataBlock
IsHeaderScanStopAtBrace(line) ==
    \/ Trim(line) = <<"}">>
    \/ Trim(line) = <<"{">>
    \/ MatchStandard(line).ok
    \/ MatchDataParen(line)

\* the stop test that ends the backward scan of findDataBlockHeader
IsHeaderScanStop(line) ==
    \/ Trim(line) = <<"}">>
    \/ MatchStandard(line).ok
    \/ MatchDataParen(line)

RECURSIVE FindHeaderLoop(_, _)
FindHeaderLoop(ls, n) ==
    IF n < 0 THEN undefined
    ELSE LET line == ls[n + 1]
             dataMatch == MatchDataHeader(line)
             standardMatch == MatchStandard(line)
         IN  IF dataMatch.ok /\ Len(parseParameters(dataMatch.paramText)) > 0
             THEN Some([blockName |-> dataMatch.blockName,
                        parameters |-> parseParameters(dataMatch.paramText)])
             ELSE IF standardMatch.ok /\ IsDataCallName(standardMatch.name)
             THEN FindHeaderLoop(ls, n - 1)
             ELSE IF standardMatch.ok /\ Len(extractParameters(ls, n)) > 0
             THEN Some([blockName |-> standardMatch.name,
                        parameters |-> extractParameters(ls, n)])
             ELSE IF IsHeaderScanStop(line)
             THEN undefined
             ELSE FindHeaderLoop(ls, n - 1)

findDataBlockHeader(ls, currentLine) == FindHeaderLoop(ls, currentLine)

-----------------------------------------------------------------------------
(* SUBDATA region tracker: PowerWorldValidationProvider.isInsideSubdataBlock *)

\* the structural lines that end the backward scan of isInsideSubdataBlock
IsSubdataScanStop(line) ==
    \/ line = <<"{">>
    \/ line = <<"}">>
    \/ MatchStandard(line).ok
    \/ MatchDataParen(line)

RECURSIVE InsideSubdataLoop(_, _)
InsideSubdataLoop(ls, n) ==
    IF n < 0 THEN FALSE
    ELSE LET line == Trim(ls[n + 1]) IN
         IF MatchSubdataClose(line) THEN FALSE
         ELSE IF MatchSubdataOpen(line) THEN TRUE
         ELSE IF IsSubdataScanStop(line) THEN FALSE
         ELSE InsideSubdataLoop(ls, n - 1)

\* mutant of isInsideSubdataBlock: the scan starts at the line above
isInsideSubdataBlockAbove(ls, currentLine) == InsideSubdataLoop(ls, currentLine - 1)

isInsideSubdataBlock(ls, currentLine) == InsideSubdataLoop(ls, currentLine)

-----------------------------------------------------------------------------
(* PowerWorldScriptSymbolProvider.provideDocumentSymbols.  A vscode.Position *)
(* is [line, character], a vscode.Range is [start, end], and a               *)
(* vscode.DocumentSymbol is [name, detail, kind, range, selectionRange].     *)

Position(line, character) == [line |-> line, character |-> character]

\* a.isBeforeOrEqual(b) on positions
IsBeforeOrEqual(a, b) ==
    a.line < b.line \/ (a.line = b.line /\ a.character <= b.character)

\* new vscode.Range(start, end): the two positions in order
Range(start, end) ==
    IF IsBeforeOrEqual(start, end) THEN [start |-> start, end |-> end]
    ELSE [start |-> end, end |-> start]

\* range.contains(other)
Contains(range, other) ==
    IsBeforeOrEqual(range.start, other.start) /\ IsBeforeOrEqual(other.end, range.end)

\* the entry built for the SCRIPT header on line n
ScriptSymbol(ls, n) ==
    LET line == ls[n + 1]
        info == detectScriptBlock(line, n)
        startPos == Position(n, 0)
        closing == findClosingBrace(ls, n)
        endPos ==
            IF info.type = "script-same-line" /\ info.isComplete
            THEN Position(n, Len(line))
            ELSE Position(closing,
                          IF ls[closing + 1] # <<>>
                          THEN IndexOf(ls[closing + 1], <<"}">>) + 1 ELSE 0)
    IN  [name |-> info.name,
         detail |-> "PowerWorld Script Block",
         kind |-> "Function",
         range |-> Range(startPos, endPos),
         selectionRange |-> Range(startPos, Position(n, Len(line)))]

\* the line of the opening brace of the DATA block of line n: the line itself,
\* or one of the next two lines; <<>> when none holds a `{`
BraceLineIndex(ls, n) ==
    LET later == {k \in (n + 1)..(Min({n + 3, Len(ls)}) - 1) :
                     Trim(ls[k + 1]) = <<"{">> \/ IndexOf(ls[k + 1], <<"{">>) # -1}
    IN  IF IndexOf(ls[n + 1], <<"{">>) # -1 THEN Some(n)
        ELSE IF later # {} THEN Some(Min(later))
        ELSE undefined

\* the entry built for the DATA or function header on line n
DataSymbol(ls, n) ==
    LET line == ls[n + 1]
        info == detectDataBlock(line)
        startPos == Position(n, 0)
        braceLineIndex == BraceLineIndex(ls, n)
        closing == IF braceLineIndex # undefined
                   THEN findClosingBrace(ls, braceLineIndex[1]) ELSE n
        endPos == Position(closing, Len(ls[closing + 1]))
    IN  [name |-> info.name,
         detail |-> IF info.type = "data" THEN "PowerWorld Data Block"
                    ELSE "PowerWorld Function Block",
         kind |-> IF info.type = "data" THEN "Object" ELSE "Class",
         range |-> Range(startPos, endPos),
         selectionRange |-> Range(startPos, Position(n, Len(line)))]

\* `new vscode.DocumentSymbol(...)` throws when the selection range is not
\* contained in the full range
SymbolIsValid(symbol) == Contains(symbol.range, symbol.selectionRange)

\* the loop of provideDocumentSymbols from line n on, with the entries pushed
\* so far: [threw, symbols, built], built being every entry constructed, the
\* one whose construction threw included
RECURSIVE SymbolsLoop(_, _, _)
SymbolsLoop(ls, n, pushed) ==
    IF n >= Len(ls) THEN [threw |-> FALSE, symbols |-> pushed, built |-> pushed]
    ELSE LET line == ls[n + 1] IN
         IF detectScriptBlock(line, n).type # "none"
         THEN IF SymbolIsValid(ScriptSymbol(ls, n))
              THEN SymbolsLoop(ls, n + 1, Append(pushed, ScriptSymbol(ls, n)))
              ELSE [threw |-> TRUE, symbols |-> <<>>,
                    built |-> Append(pushed, ScriptSymbol(ls, n))]
         ELSE IF detectDataBlock(line).type # "none"
         THEN IF SymbolIsValid(DataSymbol(ls, n))
              THEN SymbolsLoop(ls, n + 1, Append(pushed, DataSymbol(ls, n)))
              ELSE [threw |-> TRUE, symbols |-> <<>>,
                    built |-> Append(pushed, DataSymbol(ls, n))]
         ELSE SymbolsLoop(ls, n + 1, pushed)

provideDocumentSymbols(ls) == SymbolsLoop(ls, 0, <<>>)

-----------------------------------------------------------------------------
(* PowerWorldFoldingRangeProvider.  A vscode.FoldingRange is the record of  *)
(* its start line, end line and kind.                                       *)

FoldingRange(start, end, kind) == [start |-> start, end |-> end, kind |-> kind]

\* `lines[k].trim() === '{' || lines[k].includes('{')`
IsFoldBraceLine(line) == Trim(line) = <<"{">> \/ IndexOf(line, <<"{">>) # -1

\* the search for the `{` of a SCRIPT header without one on line n: the first
\* of the next two lines that holds a `{`; <<>> when neither does
ScriptFoldBraceLine(ls, n) ==
    LET later == {k \in (n + 1)..(Min({n + 3, Len(ls)}) - 1) : IsFoldBraceLine(ls[k + 1])}
    IN  IF later # {} THEN Some(Min(later)) ELSE undefined

\* the range of the SCRIPT header on line n: <<>> when none is pushed
ScriptFold(ls, n) ==
    LET scriptInfo == detectScriptBlock(ls[n + 1], n)
        startLine == n
        braceLineIndex == ScriptFoldBraceLine(ls, n)
        end == IF scriptInfo.type = "script-same-line" THEN findClosingBrace(ls, n)
               ELSE findClosingBrace(ls, braceLineIndex[1])
    IN  IF scriptInfo.type = "script-same-line" /\ scriptInfo.isComplete THEN undefined
        ELSE IF scriptInfo.type # "script-same-line" /\ braceLineIndex = undefined
        THEN undefined
        ELSE IF end > startLine THEN Some(FoldingRange(startLine, end, "Region"))
        ELSE undefined

\* the inner `for (const char of lines[j])` of the closing-parenthesis search
\* from offset k: the count after the line, and whether a `)` brought it to 0
RECURSIVE FoldParenChars(_, _, _)
FoldParenChars(line, k, parenCount) ==
    IF k >= Len(line) THEN [parenCount |-> parenCount, done |-> FALSE]
    ELSE LET char == line[k + 1] IN
         IF char = "(" THEN FoldParenChars(line, k + 1, parenCount + 1)
         ELSE IF char = ")"
         THEN IF parenCount - 1 = 0 THEN [parenCount |-> 0, done |-> TRUE]
              ELSE FoldParenChars(line, k + 1, parenCount - 1)
         ELSE FoldParenChars(line, k + 1, parenCount)

\* the outer loop of the closing-parenthesis search over the lines from j on:
\* <<>> when the document ends first
RECURSIVE FoldParenLines(_, _, _)
FoldParenLines(ls, j, parenCount) ==
    IF j >= Len(ls) THEN undefined
    ELSE LET after == FoldParenChars(ls[j + 1], 0, parenCount) IN
         IF after.done THEN Some(j) ELSE FoldParenLines(ls, j + 1, after.parenCount)

\* the search for the `{` of a DATA or function header whose parameter list
\* closes on line closingParenLine: that line, or one of the next two
DataFoldBraceLine(ls, closingParenLine) ==
    LET later == {k \in (closingParenLine + 1)..(Min({closingParenLine + 3, Len(ls)}) - 1) :
                     IsFoldBraceLine(ls[k + 1])}
    IN  IF IndexOf(ls[closingParenLine + 1], <<"{">>) # -1 THEN Some(closingParenLine)
        ELSE IF later # {} THEN Some(Min(later))
        ELSE undefined

\* the range of the DATA or function header on line n: <<>> when none is pushed
DataFold(ls, n) ==
    LET closingParenLine == FoldParenLines(ls, n, 0)
        braceLineIndex == DataFoldBraceLine(ls, closingParenLine[1])
        end == findClosingBrace(ls, braceLineIndex[1])
    IN  IF closingParenLine = undefined THEN undefined
        ELSE IF braceLineIndex = undefined THEN undefined
        ELSE IF end > braceLineIndex[1] THEN Some(FoldingRange(n, end, "Region"))
        ELSE undefined

\* the loop of provideFoldingRanges from line n on, with the ranges pushed so far
RECURSIVE FoldingLoop(_, _, _)
FoldingLoop(ls, n, pushed) ==
    IF n >= Len(ls) THEN pushed
    ELSE LET line == ls[n + 1] IN
         IF detectScriptBlock(line, n).type # "none"
         THEN FoldingLoop(ls, n + 1, pushed \o ScriptFold(ls, n))
         ELSE IF detectDataBlock(line).type # "none"
         THEN FoldingLoop(ls, n + 1, pushed \o DataFold(ls, n))
         ELSE FoldingLoop(ls, n + 1, pushed)

provideFoldingRanges(ls) == FoldingLoop(ls, 0, <<>>)

-----------------------------------------------------------------------------
(* The helper methods of PowerWorldDataFieldHoverProvider: its own copies  *)
(* of findDataBlockHeader, extractParameters, parseParameters,             *)
(* parseDataLine and isInsideSubdataBlock.                                 *)

Hover_parseParameters(paramText) ==
    LET parts == Split(paramText, ",")
        trimmed == [k \in 1..Len(parts) |-> Trim(parts[k])]
    IN  SelectSeq(trimmed, LAMBDA param : Len(param) > 0)

\* the inner `for (const char of line)` of extractParameters; done marks the return
RECURSIVE Hover_ExtractChars(_, _, _)
Hover_ExtractChars(line, k, st) ==
    IF k >= Len(line) THEN st
    ELSE LET char == line[k + 1] IN
         IF char = "("
         THEN Hover_ExtractChars(line, k + 1,
                  [st EXCEPT !.parenCount = @ + 1, !.foundStart = TRUE])
         ELSE IF char = ")"
         THEN IF st.parenCount - 1 = 0 /\ st.foundStart
              THEN [st EXCEPT !.parenCount = @ - 1, !.done = TRUE]
              ELSE Hover_ExtractChars(line, k + 1, [st EXCEPT !.parenCount = @ - 1])
         ELSE IF st.foundStart /\ st.parenCount > 0
         THEN Hover_ExtractChars(line, k + 1, [st EXCEPT !.paramText = Append(@, char)])
         ELSE Hover_ExtractChars(line, k + 1, st)

\* the outer loop of extractParameters over the lines from n on
RECURSIVE Hover_ExtractLines(_, _, _)
Hover_ExtractLines(ls, n, st) ==
    IF n >= Len(ls) THEN <<>>
    ELSE LET after == Hover_ExtractChars(ls[n + 1], 0, st) IN
         IF after.done THEN Hover_parseParameters(after.paramText)
         ELSE Hover_ExtractLines(ls, n + 1,
                  IF after.foundStart /\ after.parenCount > 0
                  THEN [after EXCEPT !.paramText = Append(@, " ")]
                  ELSE after)

Hover_extractParameters(ls, startLine) ==
    Hover_ExtractLines(ls, startLine,
        [paramText |-> <<>>, parenCount |-> 0, foundStart |-> FALSE, done |-> FALSE])

\* the backward loop of findDataBlockHeader from line n
RECURSIVE Hover_FindHeaderLoop(_, _)
Hover_FindHeaderLoop(ls, n) ==
    IF n < 0 THEN undefined
    ELSE LET line == ls[n + 1]
             dataMatch == MatchDataHeader(line)
             standardMatch == MatchStandard(line)
         IN  IF dataMatch.ok /\ Len(Hover_parseParameters(dataMatch.paramText)) > 0
             THEN Some([blockName |-> dataMatch.blockName,
                        parameters |-> Hover_parseParameters(dataMatch.paramText)])
             ELSE IF standardMatch.ok /\ LowerString(standardMatch.name) = KwData
             THEN Hover_FindHeaderLoop(ls, n - 1)
             ELSE IF standardMatch.ok /\ Len(Hover_extractParameters(ls, n)) > 0
             THEN Some([blockName |-> standardMatch.name,
                        parameters |-> Hover_extractParameters(ls, n)])
             ELSE IF Trim(line) = <<"}">> \/ MatchStandard(line).ok \/ MatchDataParen(line)
             THEN undefined
             ELSE Hover_FindHeaderLoop(ls, n - 1)

Hover_findDataBlockHeader(ls, currentLine) == Hover_FindHeaderLoop(ls, currentLine)

\* the `while (i < lineText.length)` loop of parseDataLine and the push after it
RECURSIVE Hover_ParseDataLineLoop(_, _, _, _, _)
Hover_ParseDataLineLoop(lineText, k, inQuotes, current, fs) ==
    IF k >= Len(lineText)
    THEN IF Len(Trim(current)) > 0 THEN Append(fs, Trim(current)) ELSE fs
    ELSE LET char == lineText[k + 1] IN
         IF char = "\"" /\ (k = 0 \/ lineText[k] # "\\")
         THEN Hover_ParseDataLineLoop(lineText, k + 1, ~inQuotes, Append(current, char), fs)
         ELSE IF char = " " /\ ~inQuotes
         THEN IF Len(Trim(current)) > 0
              THEN Hover_ParseDataLineLoop(lineText, k + 1, inQuotes, <<>>,
                                           Append(fs, Trim(current)))
              ELSE Hover_ParseDataLineLoop(lineText, k + 1, inQuotes, current, fs)
         ELSE Hover_ParseDataLineLoop(lineText, k + 1, inQuotes, Append(current, char), fs)

Hover_parseDataLine(lineText) == Hover_ParseDataLineLoop(lineText, 0, FALSE, <<>>, <<>>)

\* the backward loop of isInsideSubdataBlock had it used its local
\* insideSubdata: an opening tag sets it and the scan goes on
RECURSIVE Hover_InsideSubdataLoopUsingLocal(_, _, _)
Hover_InsideSubdataLoopUsingLocal(ls, n, inside) ==
    IF n < 0 THEN inside
    ELSE LET line == Trim(ls[n + 1]) IN
         IF MatchSubdataClose(line) THEN FALSE
         ELSE IF MatchSubdataOpen(line) THEN Hover_InsideSubdataLoopUsingLocal(ls, n - 1, TRUE)
         ELSE IF line = <<"{">> \/ line = <<"}">> \/ MatchStandard(line).ok \/ MatchDataParen(line)
         THEN inside
         ELSE Hover_InsideSubdataLoopUsingLocal(ls, n - 1, inside)

\* mutant of Hover_isInsideSubdataBlock: the local insideSubdata is what the
\* method returns
Hover_isInsideSubdataBlockUsingLocal(ls, currentLine) ==
    Hover_InsideSubdataLoopUsingLocal(ls, currentLine, FALSE)

\* the backward loop of isInsideSubdataBlock from line n; the local
\* `insideSubdata` the method declares is never read
RECURSIVE Hover_InsideSubdataLoop(_, _)
Hover_InsideSubdataLoop(ls, n) ==
    IF n < 0 THEN FALSE
    ELSE LET line == Trim(ls[n + 1]) IN
         IF MatchSubdataClose(line) THEN FALSE
         ELSE IF MatchSubdataOpen(line) THEN TRUE
         ELSE IF line = <<"{">> \/ line = <<"}">> \/ MatchStandard(line).ok \/ MatchDataParen(line)
         THEN FALSE
         ELSE Hover_InsideSubdataLoop(ls, n - 1)

Hover_isInsideSubdataBlock(ls, currentLine) == Hover_InsideSubdataLoop(ls, currentLine)

-----------------------------------------------------------------------------
(* PowerWorldDataFieldHoverProvider: findFieldAtPosition and provideHover.  *)
(* A vscode.Hover is the record of the values its text is rendered from.    *)

\* the loop of findFieldAtPosition from field m (0-based) on
RECURSIVE FieldAtLoop(_, _, _, _, _)
FieldAtLoop(lineText, fs, m, currentPos, character) ==
    IF m >= Len(fs) THEN -1
    ELSE LET field == fs[m + 1]
             fieldStart == IndexOfFrom(lineText, field, currentPos)
             fieldEnd == fieldStart + Len(field)
         IN  IF character >= fieldStart /\ character <= fieldEnd THEN m
             ELSE FieldAtLoop(lineText, fs, m + 1, fieldEnd, character)

findFieldAtPosition(lineText, character) ==
    FieldAtLoop(lineText, parseDataLine(lineText), 0, 0, character)

\* provideHover(document, position): <<>> (undefined) or <<the hover>>
provideHover(ls, pos) ==
    LET line == ls[pos.line + 1]
        lineText == Trim(line)
        header == findDataBlockHeader(ls, pos.line)
        dataFields == parseDataLine(lineText)
        fieldIndex == findFieldAtPosition(line, pos.character)
    IN  IF StartsWith(lineText, <<"/", "/">>) \/ lineText = <<>> THEN undefined
        ELSE IF MatchStandard(lineText).ok THEN undefined
        ELSE IF lineText = <<"{">> \/ lineText = <<"}">> THEN undefined
        ELSE IF MatchSubdataOpen(lineText) \/ MatchSubdataClose(lineText) THEN undefined
        ELSE IF isInsideSubdataBlock(ls, pos.line) THEN undefined
        ELSE IF header = undefined THEN undefined
        ELSE IF Len(dataFields) = 0 THEN undefined
        ELSE IF fieldIndex = -1 \/ fieldIndex >= Len(header[1].parameters) THEN undefined
        ELSE Some([fieldValue |-> dataFields[fieldIndex + 1],
                   fieldName |-> header[1].parameters[fieldIndex + 1],
                   blockName |-> header[1].blockName,
                   fieldIndex |-> fieldIndex + 1,
                   fieldCount |-> Len(header[1].parameters)])

-----------------------------------------------------------------------------
(* Diagnostics.  A vscode.Diagnostic is a record: the range lies on one    *)
(* line (line, startCharacter, endCharacter); the message is its kind with *)
(* the values interpolated into it.                                        *)

UnclosedScriptDiagnostic(unclosed, ls) ==
    [line |-> unclosed.line, startCharacter |-> 0,
     endCharacter |-> Len(ls[unclosed.line + 1]),
     kind |-> "SCRIPT block is missing a closing brace",
     name |-> unclosed.name, expected |-> 0, found |-> 0, count |-> 0,
     severity |-> "Error"]

UnclosedDataDiagnostic(unclosed, ls) ==
    [line |-> unclosed.line, startCharacter |-> 0,
     endCharacter |-> Len(ls[unclosed.line + 1]),
     kind |-> "DATA block is missing a closing brace",
     name |-> unclosed.name, expected |-> 0, found |-> 0, count |-> 0,
     severity |-> "Error"]

SemicolonDiagnostic(lineNumber, semicolonPos) ==
    [line |-> lineNumber, startCharacter |-> semicolonPos,
     endCharacter |-> semicolonPos,
     kind |-> "Function call in SCRIPT block must end with a semicolon (;)",
     name |-> <<>>, expected |-> 0, found |-> 0, count |-> 0,
     severity |-> "Error"]

TooManyFieldsDiagnostic(lineNumber, startPos, lineEndPos, expected, found) ==
    [line |-> lineNumber, startCharacter |-> startPos, endCharacter |-> lineEndPos,
     kind |-> "Too many fields", name |-> <<>>,
     expected |-> expected, found |-> found, count |-> found - expected,
     severity |-> "Error"]

\* mutant of MissingFieldsDiagnostic: the deficit is reported as an Error
MissingFieldsAsError(lineNumber, lineEndPos, expected, found) ==
    [line |-> lineNumber, startCharacter |-> 0, endCharacter |-> lineEndPos,
     kind |-> "Missing fields", name |-> <<>>,
     expected |-> expected, found |-> found, count |-> expected - found,
     severity |-> "Error"]

MissingFieldsDiagnostic(lineNumber, lineEndPos, expected, found) ==
    [line |-> lineNumber, startCharacter |-> 0, endCharacter |-> lineEndPos,
     kind |-> "Missing fields", name |-> <<>>,
     expected |-> expected, found |-> found, count |-> expected - found,
     severity |-> "Warning"]

\* mutant of FlushUnclosed: a pending SCRIPT marker is dropped without a report
FlushUnclosedDataOnly(st, ls) ==
    IF st.unclosedDataBlock # undefined
    THEN <<UnclosedDataDiagnostic(st.unclosedDataBlock[1], ls)>> ELSE <<>>

\* the two `if (unclosed...Block) { diagnostics.push(...) }` of a header line
\* and of the end of the scan
FlushUnclosed(st, ls) ==
    (IF st.unclosedScriptBlock # undefined
     THEN <<UnclosedScriptDiagnostic(st.unclosedScriptBlock[1], ls)>> ELSE <<>>)
    \o
    (IF st.unclosedDataBlock # undefined
     THEN <<UnclosedDataDiagnostic(st.unclosedDataBlock[1], ls)>> ELSE <<>>)

-----------------------------------------------------------------------------
(* validateScriptLine and findExtraFieldPosition                           *)

\* mutant of LacksSemicolon: a semicolon anywhere in the statement is accepted
LacksSemicolonAnywhere(contentToValidate) == IndexOf(contentToValidate, <<";">>) = -1

\* `!contentToValidate.endsWith(';')`
LacksSemicolon(contentToValidate) == ~EndsWith(contentToValidate, <<";">>)

\* the diagnostics validateScriptLine pushes: none or one
validateScriptLine(line, lineNumber) ==
    LET lineText == Trim(line)
        lineWithoutComments == removeEndOfLineComment(lineText)
        contentToValidate ==
            IF StartsWith(lineWithoutComments, <<"{">>) /\ EndsWith(lineWithoutComments, <<"}">>)
            THEN Trim(Substring(lineWithoutComments, 1, Len(lineWithoutComments) - 1))
            ELSE lineWithoutComments
        lastComment == LastIndexOf(line, <<"/", "/">>)
        originalLineWithoutComments ==
            TrimEnd(Substring(line, 0, IF lastComment >= 0 THEN lastComment ELSE Len(line)))
        semicolonPos == Len(originalLineWithoutComments)
    IN  IF lineText = <<>> \/ lineText = <<"{">> \/ lineText = <<"}">>
        THEN <<>>
        ELSE IF MatchFunctionDef(contentToValidate).ok /\ LacksSemicolon(contentToValidate)
        THEN <<SemicolonDiagnostic(lineNumber, semicolonPos)>>
        ELSE <<>>

\* the first loop of findExtraFieldPosition: currentPos after the first n fields
RECURSIVE SkipFields(_, _, _, _)
SkipFields(lineText, fs, n, currentPos) ==
    IF n = 0 THEN currentPos
    ELSE LET before == SkipFields(lineText, fs, n - 1, currentPos)
             fieldStart == IndexOfFrom(lineText, fs[n], before)
         IN  fieldStart + Len(fs[n])

\* the `while (... lineText[currentPos] === ' ')` of findExtraFieldPosition
SkipBlanks(lineText, currentPos) ==
    LET stop == {j \in currentPos..(Len(lineText) - 1) : lineText[j + 1] # " "}
    IN  IF stop = {} THEN Max({currentPos, Len(lineText)}) ELSE Min(stop)

findExtraFieldPosition(lineText, expectedFieldCount) ==
    LET fs == parseDataLine(lineText)
        currentPos == SkipBlanks(lineText, SkipFields(lineText, fs, expectedFieldCount, 0))
    IN  IF Len(fs) <= expectedFieldCount THEN -1
        ELSE IF currentPos < Len(lineText) THEN currentPos ELSE -1

-----------------------------------------------------------------------------
(* PowerWorldValidationProvider.validateDocument: one iteration of the     *)
(* `for` loop over the lines, as a function of the locals                  *)
(*   st = [insideDataBlock, insideScriptBlock, currentDataBlockInfo,       *)
(*         unclosedScriptBlock, unclosedDataBlock, diagnostics].           *)

\* the locals of the call in progress
Locals ==
    [insideDataBlock |-> insideDataBlock,
     insideScriptBlock |-> insideScriptBlock,
     currentDataBlockInfo |-> currentDataBlockInfo,
     unclosedScriptBlock |-> unclosedScriptBlock,
     unclosedDataBlock |-> unclosedDataBlock,
     diagnostics |-> diagnostics]

\* mutant of FreshLocals: the locals kept from the previous call, as instance
\* fields that are never reset would be
PersistedLocals == Locals

\* the locals as declared at the start of a call
FreshLocals ==
    [insideDataBlock |-> FALSE,
     insideScriptBlock |-> FALSE,
     currentDataBlockInfo |-> undefined,
     unclosedScriptBlock |-> undefined,
     unclosedDataBlock |-> undefined,
     diagnostics |-> <<>>]

\* `lineText.startsWith('//') || lineText === ''`
IsSkippedLine(lineText) == StartsWith(lineText, <<"/", "/">>) \/ lineText = <<>>

\* mutant of IsClosingBraceLine: a `}` anywhere on the line closes the block
IsClosingBraceLineAnywhere(lineText) == IndexOf(lineText, <<"}">>) # -1

\* `lineText === '}'`
IsClosingBraceLine(lineText) == lineText = <<"}">>

\* mutant of ScriptHeaderStep: the pending markers are reported after the
\* inline content of the new header line, not before
ScriptHeaderStepFlushLast(st, ls, n) ==
    LET lineText == Trim(ls[n + 1])
        scriptInfo == detectScriptBlock(ls[n + 1], n)
        singleLineInfo == detectSingleLineBlock(lineText)
        afterBrace == SubstringFrom(lineText, IndexOf(lineText, <<"{">>) + 1)
    IN  IF scriptInfo.type = "script-same-line" /\ scriptInfo.isComplete
        THEN [insideScriptBlock |-> FALSE,
              insideDataBlock |-> FALSE,
              currentDataBlockInfo |-> undefined,
              unclosedScriptBlock |-> undefined,
              unclosedDataBlock |-> undefined,
              diagnostics |-> st.diagnostics \o
                  (IF singleLineInfo.content # <<>>
                   THEN validateScriptLine(singleLineInfo.content, n) ELSE <<>>)
                  \o FlushUnclosed(st, ls)]
        ELSE [insideScriptBlock |-> TRUE,
              insideDataBlock |-> FALSE,
              currentDataBlockInfo |-> undefined,
              unclosedScriptBlock |-> Some([line |-> n, name |-> scriptInfo.name]),
              unclosedDataBlock |-> undefined,
              diagnostics |-> st.diagnostics \o
                  (IF /\ scriptInfo.type = "script-same-line"
                      /\ scriptInfo.hasContent
                      /\ afterBrace # <<>>
                      /\ Trim(afterBrace) # <<>>
                   THEN validateScriptLine(afterBrace, n) ELSE <<>>)
                  \o FlushUnclosed(st, ls)]

\* the branch `if (scriptInfo.type !== 'none')`
ScriptHeaderStep(st, ls, n) ==
    LET lineText == Trim(ls[n + 1])
        scriptInfo == detectScriptBlock(ls[n + 1], n)
        flushed == st.diagnostics \o FlushUnclosed(st, ls)
        singleLineInfo == detectSingleLineBlock(lineText)
        afterBrace == SubstringFrom(lineText, IndexOf(lineText, <<"{">>) + 1)
    IN  IF scriptInfo.type = "script-same-line" /\ scriptInfo.isComplete
        THEN [insideScriptBlock |-> FALSE,
              insideDataBlock |-> FALSE,
              currentDataBlockInfo |-> undefined,
              unclosedScriptBlock |-> undefined,
              unclosedDataBlock |-> undefined,
              diagnostics |-> flushed \o
                  (IF singleLineInfo.content # <<>>
                   THEN validateScriptLine(singleLineInfo.content, n) ELSE <<>>)]
        ELSE [insideScriptBlock |-> TRUE,
              insideDataBlock |-> FALSE,
              currentDataBlockInfo |-> undefined,
              unclosedScriptBlock |-> Some([line |-> n, name |-> scriptInfo.name]),
              unclosedDataBlock |-> undefined,
              diagnostics |-> flushed \o
                  (IF /\ scriptInfo.type = "script-same-line"
                      /\ scriptInfo.hasContent
                      /\ afterBrace # <<>>
                      /\ Trim(afterBrace) # <<>>
                   THEN validateScriptLine(afterBrace, n) ELSE <<>>)]

\* mutant of OpenBraceStep: the test of insideScriptBlock is missing, every
\* line starting with `{` opens a data block
OpenBraceStepEntersData(st, ls, n) ==
    IF st.currentDataBlockInfo # undefined
    THEN [st EXCEPT
            !.insideDataBlock = TRUE,
            !.insideScriptBlock = FALSE,
            !.unclosedDataBlock =
                Some([line |-> n, name |-> st.currentDataBlockInfo[1].blockName]),
            !.unclosedScriptBlock = undefined]
    ELSE [st EXCEPT !.insideDataBlock = TRUE, !.insideScriptBlock = FALSE]

\* the branch `if (lineText.startsWith('{'))`
OpenBraceStep(st, ls, n) ==
    LET lineText == Trim(ls[n + 1])
        openBraceIndex == IndexOf(lineText, <<"{">>)
        closeBraceIndex == LastIndexOf(lineText, <<"}">>)
        contentBetweenBraces == Trim(Substring(lineText, openBraceIndex + 1, closeBraceIndex))
        afterBrace == SubstringFrom(lineText, openBraceIndex + 1)
    IN  IF st.insideScriptBlock
        THEN IF openBraceIndex # -1 /\ closeBraceIndex # -1 /\ closeBraceIndex > openBraceIndex
             THEN [st EXCEPT
                     !.diagnostics = @ \o
                         (IF contentBetweenBraces # <<>>
                          THEN validateScriptLine(contentBetweenBraces, n) ELSE <<>>),
                     !.unclosedScriptBlock = undefined,
                     !.insideScriptBlock = FALSE]
             ELSE IF Trim(lineText) = <<"{">>
             THEN st
             ELSE [st EXCEPT
                     !.diagnostics = @ \o
                         (IF Trim(afterBrace) # <<>>
                          THEN validateScriptLine(afterBrace, n) ELSE <<>>)]
        ELSE IF st.currentDataBlockInfo # undefined
             THEN [st EXCEPT
                     !.insideDataBlock = TRUE,
                     !.insideScriptBlock = FALSE,
                     !.unclosedDataBlock =
                         Some([line |-> n, name |-> st.currentDataBlockInfo[1].blockName]),
                     !.unclosedScriptBlock = undefined]
             ELSE [st EXCEPT !.insideDataBlock = TRUE, !.insideScriptBlock = FALSE]

\* mutant of CloseBraceStep: the flags and the header are reset, the two
\* markers are left as they are
CloseBraceStepKeepsMarkers(st) ==
    [st EXCEPT
        !.insideDataBlock = FALSE,
        !.insideScriptBlock = FALSE,
        !.currentDataBlockInfo = undefined]

\* the branch `if (lineText === '}')`
CloseBraceStep(st) ==
    [st EXCEPT
        !.insideDataBlock = FALSE,
        !.insideScriptBlock = FALSE,
        !.currentDataBlockInfo = undefined,
        !.unclosedScriptBlock = undefined,
        !.unclosedDataBlock = undefined]

\* mutant of IsDataHeaderLine: the test of insideDataBlock is missing
IsDataHeaderLineInData(st, line) ==
    /\ detectDataBlock(line).type # "none"
    /\ ~EndsWith(Trim(Trim(line)), <<";">>)
    /\ ~st.insideScriptBlock

\* mutant of IsDataHeaderLine: the tests of the two flags are missing
IsDataHeaderLineAnyState(st, line) ==
    /\ detectDataBlock(line).type # "none"
    /\ ~EndsWith(Trim(Trim(line)), <<";">>)

\* the condition of the branch that starts a new DATA/function block
IsDataHeaderLine(st, line) ==
    /\ detectDataBlock(line).type # "none"
    /\ ~EndsWith(Trim(Trim(line)), <<";">>)
    /\ ~st.insideScriptBlock
    /\ ~st.insideDataBlock

\* mutant of DataHeaderStep: a header line that carries its `{` opens the
\* data block at once
DataHeaderStepEntersAtBrace(st, ls, n) ==
    [insideDataBlock |-> IndexOf(ls[n + 1], <<"{">>) # -1,
     insideScriptBlock |-> FALSE,
     currentDataBlockInfo |-> findDataBlockHeader(ls, n),
     unclosedScriptBlock |-> undefined,
     unclosedDataBlock |-> undefined,
     diagnostics |-> st.diagnostics \o FlushUnclosed(st, ls)]

\* the branch of a DATA/function header line
DataHeaderStep(st, ls, n) ==
    [insideDataBlock |-> FALSE,
     insideScriptBlock |-> FALSE,
     currentDataBlockInfo |-> findDataBlockHeader(ls, n),
     unclosedScriptBlock |-> undefined,
     unclosedDataBlock |-> undefined,
     diagnostics |-> st.diagnostics \o FlushUnclosed(st, ls)]

\* `lineText.match(/^\s*<SUBDATA\s+[^>]*>/i) || lineText.match(/^\s*<\/SUBDATA>/i)`
IsSubdataTag(lineText) == MatchSubdataOpen(lineText) \/ MatchSubdataClose(lineText)

\* mutant of FieldCountDiagnostics: the deficit test is `<=` instead of `<`
FieldCountDiagnosticsOffByOne(lineWithoutComments, n, parameters) ==
    LET dataFields == parseDataLine(lineWithoutComments)
        extraFieldStartPos == findExtraFieldPosition(lineWithoutComments, Len(parameters))
    IN  (IF Len(dataFields) > Len(parameters) /\ extraFieldStartPos # -1
         THEN <<TooManyFieldsDiagnostic(n, extraFieldStartPos, Len(lineWithoutComments),
                                        Len(parameters), Len(dataFields))>>
         ELSE <<>>)
        \o
        (IF Len(dataFields) <= Len(parameters)
         THEN <<MissingFieldsDiagnostic(n, Len(lineWithoutComments),
                                        Len(parameters), Len(dataFields))>>
         ELSE <<>>)

\* the field-count checks of one data row: the diagnostics pushed for it
FieldCountDiagnostics(lineWithoutComments, n, parameters) ==
    LET dataFields == parseDataLine(lineWithoutComments)
        extraFieldStartPos == findExtraFieldPosition(lineWithoutComments, Len(parameters))
    IN  (IF Len(dataFields) > Len(parameters) /\ extraFieldStartPos # -1
         THEN <<TooManyFieldsDiagnostic(n, extraFieldStartPos, Len(lineWithoutComments),
                                        Len(parameters), Len(dataFields))>>
         ELSE <<>>)
        \o
        (IF Len(dataFields) < Len(parameters)
         THEN <<MissingFieldsDiagnostic(n, Len(lineWithoutComments),
                                        Len(parameters), Len(dataFields))>>
         ELSE <<>>)

\* the rest of the loop body, reached inside a data block with a header
DataRowStep(st, ls, n) ==
    LET lineText == Trim(ls[n + 1])
        lineWithoutComments == removeEndOfLineComment(lineText)
    IN  IF isInsideSubdataBlock(ls, n) THEN st
        ELSE IF IsSubdataTag(lineText) THEN st
        ELSE IF Trim(lineWithoutComments) = <<>> THEN st
        ELSE IF Len(parseDataLine(lineWithoutComments)) = 0 THEN st
        ELSE [st EXCEPT !.diagnostics = @ \o
                 FieldCountDiagnostics(lineWithoutComments, n,
                                       st.currentDataBlockInfo[1].parameters)]

\* mutant of ScanStep: a comment line or an empty line ends the open block
ScanStepSkippedLineEndsBlock(st, ls, n) ==
    LET line == ls[n + 1]
        lineText == Trim(line)
    IN  IF IsSkippedLine(lineText) THEN CloseBraceStep(st)
        ELSE IF detectScriptBlock(line, n).type # "none" THEN ScriptHeaderStep(st, ls, n)
        ELSE IF StartsWith(lineText, <<"{">>) THEN OpenBraceStep(st, ls, n)
        ELSE IF IsClosingBraceLine(lineText) THEN CloseBraceStep(st)
        ELSE IF IsDataHeaderLine(st, line) THEN DataHeaderStep(st, ls, n)
        ELSE IF st.insideScriptBlock
        THEN [st EXCEPT !.diagnostics = @ \o validateScriptLine(line, n)]
        ELSE IF ~st.insideDataBlock \/ st.currentDataBlockInfo = undefined THEN st
        ELSE DataRowStep(st, ls, n)

\* the body of the loop for line n
ScanStep(st, ls, n) ==
    LET line == ls[n + 1]
        lineText == Trim(line)
    IN  IF IsSkippedLine(lineText) THEN st
        ELSE IF detectScriptBlock(line, n).type # "none" THEN ScriptHeaderStep(st, ls, n)
        ELSE IF StartsWith(lineText, <<"{">>) THEN OpenBraceStep(st, ls, n)
        ELSE IF IsClosingBraceLine(lineText) THEN CloseBraceStep(st)
        ELSE IF IsDataHeaderLine(st, line) THEN DataHeaderStep(st, ls, n)
        ELSE IF st.insideScriptBlock
        THEN [st EXCEPT !.diagnostics = @ \o validateScriptLine(line, n)]
        ELSE IF ~st.insideDataBlock \/ st.currentDataBlockInfo = undefined THEN st
        ELSE DataRowStep(st, ls, n)

\* the locals after the lines 0..n-1 of ls, from the fresh locals
RECURSIVE ScanPrefix(_, _)
ScanPrefix(ls, n) ==
    IF n = 0 THEN FreshLocals ELSE ScanStep(ScanPrefix(ls, n - 1), ls, n - 1)

\* the diagnostics a whole call computes for the buffer ls
Analyze(ls) ==
    LET st == ScanPrefix(ls, Len(ls))
    IN  st.diagnostics \o FlushUnclosed(st, ls)

-----------------------------------------------------------------------------
(* The buffers the validator is run on.                                    *)

LnScriptOpen == <<"S","C","R","I","P","T"," ","T"," ","{">>  \* `SCRIPT T {`
LnScriptBare == <<"S","C","R","I","P","T">>  \* `SCRIPT`
LnScriptOneLine == <<"S","C","R","I","P","T"," ","U"," ","{"," ","f","(","x",")"," ","}">>  \* `SCRIPT U { f(x) }`
LnScriptOneLineSemi == <<"S","C","R","I","P","T"," ","U"," ","{"," ","f","(","x",")",";"," ","}">>  \* `SCRIPT U { f(x); }`
LnCall == <<"f","(","x",")">>  \* `f(x)`
LnCallSemi == <<"f","(","x",")",";"," ","/","/"," ","c">>  \* `f(x); // c`
LnCallClose == <<"f","(","x",")",";"," ","}">>  \* `f(x); }`
LnOpen == <<"{">>  \* `{`
LnClose == <<"}">>  \* `}`
LnHeader == <<"B","u","s"," ","(","A",","," ","B",")">>  \* `Bus (A, B)`
LnHeaderEmpty == <<"B","u","s"," ","(",")">>  \* `Bus ()`
LnDataNoList == <<"D","A","T","A"," ","(","G","e","n",")">>  \* `DATA (Gen)`
LnDataList == <<"D","A","T","A"," ","(","G","e","n",","," ","[","A","]",")">>  \* `DATA (Gen, [A])`
LnRow1 == <<"1">>  \* `1`
LnRow2 == <<"1"," ","\"","x"," ","y","\"">>  \* `1 "x y"`
LnRow3 == <<"1"," ","2"," ","3"," ","/","/"," ","c">>  \* `1 2 3 // c`
LnSubOpen == <<"<","S","U","B","D","A","T","A"," ","X",">">>  \* `<SUBDATA X>`
LnSubClose == <<"<","/","S","U","B","D","A","T","A",">">>  \* `</SUBDATA>`
LnComment == <<"/","/"," ","c">>  \* `// c`

\* all buffers of 1..n lines over a pool of lines
Buffers(pool, n) == UNION {[1..k -> pool] : k \in 1..n}

\* the length of the buffers of Spec and SpecData
MaxLines == 4
\* the lines of Spec: SCRIPT blocks, their statements and a data block
ScriptPool ==
    {LnScriptOpen, LnScriptBare, LnScriptOneLine, LnScriptOneLineSemi,
     LnCall, LnCallSemi, LnCallClose, LnOpen, LnClose}
\* the lines of SpecData: DATA/function blocks, their rows and SUBDATA tags
DataPool ==
    {LnHeader, LnDataNoList, LnOpen, LnClose,
     LnRow1, LnRow2, LnRow3, LnSubOpen, LnSubClose}
\* the lines of SpecMixed: SCRIPT blocks and DATA blocks in one buffer
MixedPool ==
    {LnScriptOneLine, LnScriptOpen, LnCallSemi, LnHeader, LnOpen, LnClose, LnRow1, LnRow3}
LnCloseOpen == <<"}"," ","{">>  \* `} {`
LnOpenClose == <<"{"," ","}">>  \* `{ }`
\* the lines of SpecBrace: braces in every arrangement
BracePool == {LnOpen, LnClose, LnCloseOpen, LnOpenClose, LnRow1, LnScriptOpen}
\* the lines of SpecOutline: headers of every kind, statements, rows, braces
OutlinePool ==
    {LnScriptOpen, LnScriptBare, LnScriptOneLineSemi, LnCallSemi,
     LnHeader, LnDataList, LnOpen, LnClose, LnRow1}
LnBlank == <<>>  \* the empty line
\* the lines of SpecHeader: headers that parse and headers that do not, and
\* what stands between a header and a row
HeaderPool ==
    {LnHeader, LnHeaderEmpty, LnDataNoList, LnDataList,
     LnOpen, LnClose, LnRow1, LnComment, LnBlank}
\* SpecSubdata: a header and its brace, then up to MaxBody lines of body
MaxBody == 3
SubdataPool == {LnSubOpen, LnSubClose, LnRow1, LnRow3, LnCall, LnComment}
SubdataBuffers ==
    {<<LnHeader, LnOpen>> \o body : body \in Buffers(SubdataPool, MaxBody)}
LnRowComment == <<"1"," ","/","/"," ","c">>  \* `1 // c`
\* SpecHover: a header and its brace, then up to MaxBody lines of body
HoverPool == {LnSubOpen, LnSubClose, LnRow1, LnRow2, LnRowComment, LnCall}
HoverBuffers ==
    {<<LnHeader, LnOpen>> \o body : body \in Buffers(HoverPool, MaxBody)}
\* the texts the edits of SpecEdit give a document
EditBuffers ==
    {<<LnScriptOpen>>, <<LnScriptOpen, LnCall, LnClose>>,
     <<LnHeader, LnOpen, LnRow1>>, <<LnComment>>}

-----------------------------------------------------------------------------
(* The validator as a state machine: a call of validateDocument is started *)
(* by a host event, runs the loop line by line and ends by storing its     *)
(* diagnostics.  The host is single-threaded: no event is handled while a  *)
(* call is in progress.                                                    *)

SetLocals(st) ==
    /\ insideDataBlock' = st.insideDataBlock
    /\ insideScriptBlock' = st.insideScriptBlock
    /\ currentDataBlockInfo' = st.currentDataBlockInfo
    /\ unclosedScriptBlock' = st.unclosedScriptBlock
    /\ unclosedDataBlock' = st.unclosedDataBlock
    /\ diagnostics' = st.diagnostics

\* mutant of CollectionSet: the diagnostics are stored for every document
CollectionSetAll(collection, uri, ds) == [u \in DOMAIN collection |-> Some(ds)]

\* mutant of CollectionSet: the new diagnostics are merged into the stored set
CollectionSetMerging(collection, uri, ds) ==
    [collection EXCEPT ![uri] = IF @ = undefined THEN Some(ds) ELSE Some(@[1] \o ds)]

\* DiagnosticCollection.set(uri, diagnostics): the entry of uri is replaced
CollectionSet(collection, uri, ds) == [collection EXCEPT ![uri] = Some(ds)]

\* entry of validateDocument(document): the declarations before the loop
StartValidate(u, buffer) ==
    /\ pc' = "scan"
    /\ document' = Some(u)
    /\ lines' = buffer
    /\ i' = 0
    /\ SetLocals(FreshLocals)

\* the number of validateDocument calls of one run of the model
MaxCalls == 3

\* vscode.workspace.onDidOpenTextDocument: the host opens a file
OnDidOpenTextDocument ==
    \E u \in Uris :
        /\ pc = "idle"
        /\ textDocuments = <<>>
        /\ Len(calls) < MaxCalls
        /\ files[u] # undefined
        /\ documents[u] = undefined
        /\ documents' = [documents EXCEPT ![u] = files[u]]
        /\ IF languageId(u) = "powerworld-aux"
           THEN StartValidate(u, files[u][1])
           ELSE UNCHANGED <<pc, document, lines, i, insideDataBlock, insideScriptBlock,
                            currentDataBlockInfo, unclosedScriptBlock, unclosedDataBlock,
                            diagnostics>>
        /\ UNCHANGED <<files, diagnosticCollection, calls, textDocuments>>
        /\ UNCHANGED tokVars
        /\ UNCHANGED viewVars

\* vscode.workspace.onDidChangeTextDocument: an open document gets a new text
OnDidChangeTextDocument ==
    \E u \in Uris, buffer \in EditBuffers :
        /\ pc = "idle"
        /\ textDocuments = <<>>
        /\ Len(calls) < MaxCalls
        /\ documents[u] # undefined
        /\ documents' = [documents EXCEPT ![u] = Some(buffer)]
        /\ IF languageId(u) = "powerworld-aux"
           THEN StartValidate(u, buffer)
           ELSE UNCHANGED <<pc, document, lines, i, insideDataBlock, insideScriptBlock,
                            currentDataBlockInfo, unclosedScriptBlock, unclosedDataBlock,
                            diagnostics>>
        /\ UNCHANGED <<files, diagnosticCollection, calls, textDocuments>>
        /\ UNCHANGED tokVars
        /\ UNCHANGED viewVars

\* one iteration of the loop of validateDocument
ScanLine ==
    /\ pc = "scan"
    /\ i < Len(lines)
    /\ SetLocals(ScanStep(Locals, lines, i))
    /\ i' = i + 1
    /\ UNCHANGED <<files, documents, diagnosticCollection, pc, document, lines, calls,
                   textDocuments>>
    /\ UNCHANGED tokVars
    /\ UNCHANGED viewVars

\* the end of validateDocument: the flush after the loop and
\* this.diagnosticCollection.set(document.uri, diagnostics)
ScanEnd ==
    /\ pc = "scan"
    /\ i = Len(lines)
    /\ diagnostics' = diagnostics \o FlushUnclosed(Locals, lines)
    /\ diagnosticCollection' = CollectionSet(diagnosticCollection, document[1], diagnostics')
    /\ calls' = Append(calls, [uri |-> document[1], buffer |-> lines, diagnostics |-> diagnostics'])
    /\ pc' = "idle"
    /\ UNCHANGED <<files, documents, document, lines, i, insideDataBlock, insideScriptBlock,
                   currentDataBlockInfo, unclosedScriptBlock, unclosedDataBlock,
                   textDocuments>>
    /\ UNCHANGED tokVars
    /\ UNCHANGED viewVars

\* mutant of ValidateOpenDocuments: the documents open at activation are
\* passed over
ValidateOpenDocumentsNone ==
    /\ pc = "idle"
    /\ textDocuments # <<>>
    /\ textDocuments' = Tail(textDocuments)
    /\ UNCHANGED <<files, documents, diagnosticCollection, calls, pc, document, lines, i,
                   insideDataBlock, insideScriptBlock, currentDataBlockInfo,
                   unclosedScriptBlock, unclosedDataBlock, diagnostics>>
    /\ UNCHANGED tokVars
    /\ UNCHANGED viewVars

\* `vscode.workspace.textDocuments.forEach(doc => ...)` of activate: the next
\* document open at activation is visited, once the call for the one before
\* it has returned
ValidateOpenDocuments ==
    /\ pc = "idle"
    /\ textDocuments # <<>>
    /\ textDocuments' = Tail(textDocuments)
    /\ LET doc == Head(textDocuments)
       IN  IF languageId(doc) = "powerworld-aux"
           THEN StartValidate(doc, documents[doc][1])
           ELSE UNCHANGED <<pc, document, lines, i, insideDataBlock, insideScriptBlock,
                            currentDataBlockInfo, unclosedScriptBlock, unclosedDataBlock,
                            diagnostics>>
    /\ UNCHANGED <<files, documents, diagnosticCollection, calls>>
    /\ UNCHANGED tokVars
    /\ UNCHANGED viewVars

Next == OnDidOpenTextDocument \/ ScanLine \/ ScanEnd

NextEdit == OnDidOpenTextDocument \/ OnDidChangeTextDocument \/ ScanLine \/ ScanEnd

-----------------------------------------------------------------------------
(* The specifications.                                                     *)

TokIdle ==
    /\ text = <<>>
    /\ fields = undefined
    /\ stripped = undefined

\* no provider or utility call has been made
ViewIdle ==
    /\ position = undefined
    /\ endLine = undefined
    /\ dataBlockInfo = undefined
    /\ symbols = undefined
    /\ hover = undefined
    /\ scriptDetected = undefined
    /\ dataDetected = undefined
    /\ insideSubdata = undefined
    /\ paramList = undefined
    /\ ranges = undefined
    /\ helperResults = undefined

\* after activation: no document is open, no call has run, nothing is stored
HostQuiet ==
    /\ documents = [u \in Uris |-> undefined]
    /\ diagnosticCollection = [u \in Uris |-> undefined]
    /\ pc = "idle"
    /\ document = undefined
    /\ i = 0
    /\ insideDataBlock = FALSE
    /\ insideScriptBlock = FALSE
    /\ currentDataBlockInfo = undefined
    /\ unclosedScriptBlock = undefined
    /\ unclosedDataBlock = undefined
    /\ diagnostics = <<>>
    /\ calls = <<>>
    /\ textDocuments = <<>>
    /\ ViewIdle

HostIdle == HostQuiet /\ lines = <<>>

\* the file a.aux holds buffer, and is the only file
InitFile(buffer) ==
    /\ files = [u \in Uris |-> IF u = "a.aux" THEN Some(buffer) ELSE undefined]
    /\ HostIdle
    /\ TokIdle

Init == \E buffer \in Buffers(ScriptPool, MaxLines) : InitFile(buffer)
Spec == Init /\ [][Next]_vars

InitData == \E buffer \in Buffers(DataPool, MaxLines) : InitFile(buffer)
SpecData == InitData /\ [][Next]_vars

InitMixed == \E buffer \in Buffers(MixedPool, MaxLines) : InitFile(buffer)
SpecMixed == InitMixed /\ [][Next]_vars

InitSubdata == \E buffer \in SubdataBuffers : InitFile(buffer)
SpecSubdata == InitSubdata /\ [][Next]_vars

InitEdit ==
    /\ files = [u \in Uris |-> Some(<<LnScriptOpen, LnCall>>)]
    /\ HostIdle
    /\ TokIdle
SpecEdit == InitEdit /\ [][NextEdit]_vars

-----------------------------------------------------------------------------
(* Tokenizer harness: the two pure tokenizer functions applied to every     *)
(* string over TokChars of length at most MaxLen.                          *)

MaxLen == 5
TokChars == {"a", " ", "\t", "\"", "\\", "/"}
TokStrings == UNION {[1..n -> TokChars] : n \in 0..MaxLen}

InitTok ==
    /\ files = [u \in Uris |-> undefined]
    /\ HostIdle
    /\ text \in TokStrings
    /\ fields = undefined
    /\ stripped = undefined

CallParseDataLine ==
    /\ fields = undefined
    /\ fields' = Some(parseDataLine(text))
    /\ UNCHANGED <<text, stripped>>
    /\ UNCHANGED scanVars
    /\ UNCHANGED viewVars

CallRemoveEndOfLineComment ==
    /\ stripped = undefined
    /\ stripped' = Some(removeEndOfLineComment(text))
    /\ UNCHANGED <<text, fields>>
    /\ UNCHANGED scanVars
    /\ UNCHANGED viewVars

NextTok == CallParseDataLine \/ CallRemoveEndOfLineComment

SpecTok == InitTok /\ [][NextTok]_vars

-----------------------------------------------------------------------------
(* Utility harness: the functions of BlockDetectionUtils and the header     *)
(* resolver applied to every line of every buffer of a pool.                *)

\* the text of a document is given, nothing has been called
InitLines(pool) ==
    /\ files = [u \in Uris |-> undefined]
    /\ HostQuiet
    /\ TokIdle
    /\ lines \in Buffers(pool, MaxLines)

CallFindClosingBrace ==
    \E startLine \in 0..(Len(lines) - 1) :
        /\ position = undefined
        /\ position' = Some([line |-> startLine, character |-> 0])
        /\ endLine' = Some(findClosingBrace(lines, startLine))
        /\ UNCHANGED <<dataBlockInfo, symbols, hover, scriptDetected, dataDetected,
                       insideSubdata, paramList, ranges, helperResults>>
        /\ UNCHANGED scanVars
        /\ UNCHANGED tokVars

\* the host asks for the outline of the document
ProvideDocumentSymbols ==
    /\ symbols = undefined
    /\ symbols' = Some(provideDocumentSymbols(lines))
    /\ UNCHANGED <<position, endLine, dataBlockInfo, hover, scriptDetected, dataDetected,
                   insideSubdata, paramList, ranges, helperResults>>
    /\ UNCHANGED scanVars
    /\ UNCHANGED tokVars

InitOutline == InitLines(OutlinePool)
NextOutline == ProvideDocumentSymbols
SpecOutline == InitOutline /\ [][NextOutline]_vars

\* the header resolver is asked for the header of a line
CallFindDataBlockHeader ==
    \E currentLine \in 0..(Len(lines) - 1) :
        /\ position = undefined
        /\ position' = Some([line |-> currentLine, character |-> 0])
        /\ dataBlockInfo' = Some(findDataBlockHeader(lines, currentLine))
        /\ UNCHANGED <<endLine, symbols, hover, scriptDetected, dataDetected,
                       insideSubdata, paramList, ranges, helperResults>>
        /\ UNCHANGED scanVars
        /\ UNCHANGED tokVars

InitHeader == InitLines(HeaderPool)
NextHeader == CallFindDataBlockHeader
SpecHeader == InitHeader /\ [][NextHeader]_vars

\* the host asks for the hover at a position of the document
ProvideHover ==
    \E n \in 0..(Len(lines) - 1) :
        \E character \in 0..Len(lines[n + 1]) :
            /\ position = undefined
            /\ position' = Some(Position(n, character))
            /\ hover' = Some(provideHover(lines, Position(n, character)))
            /\ UNCHANGED <<endLine, dataBlockInfo, symbols, scriptDetected, dataDetected,
                           insideSubdata, paramList, ranges, helperResults>>
            /\ UNCHANGED scanVars
            /\ UNCHANGED tokVars

InitHover ==
    /\ files = [u \in Uris |-> undefined]
    /\ HostQuiet
    /\ TokIdle
    /\ lines \in HoverBuffers
NextHover == ProvideHover
SpecHover == InitHover /\ [][NextHover]_vars

\* the pieces the lines of SpecClassify are made of, and how many make a line
MaxPieces == 4
Pieces ==
    {<<"S","C","R","I","P","T">>, <<"S","c","r","i","p","t">>, <<"D","A","T","A">>,
     <<"T">>, <<" ">>, <<"\t">>, <<"{">>, <<"}">>, <<"(">>}
ClassifyLines ==
    {Flatten(ps) : ps \in UNION {[1..n -> Pieces] : n \in 0..MaxPieces}}

InitClassify ==
    /\ files = [u \in Uris |-> undefined]
    /\ HostIdle
    /\ text \in ClassifyLines
    /\ fields = undefined
    /\ stripped = undefined

\* detectScriptBlock is applied to the line, as line lineIndex of a document
CallDetectScriptBlock ==
    \E lineIndex \in 0..1 :
        /\ scriptDetected = undefined
        /\ scriptDetected' = Some([lineIndex |-> lineIndex,
                                   info |-> detectScriptBlock(text, lineIndex)])
        /\ UNCHANGED <<position, endLine, dataBlockInfo, symbols, hover, dataDetected,
                       insideSubdata, paramList, ranges, helperResults>>
        /\ UNCHANGED scanVars
        /\ UNCHANGED tokVars

\* detectDataBlock is applied to the line
CallDetectDataBlock ==
    /\ dataDetected = undefined
    /\ dataDetected' = Some(detectDataBlock(text))
    /\ UNCHANGED <<position, endLine, dataBlockInfo, symbols, hover, scriptDetected,
                   insideSubdata, paramList, ranges, helperResults>>
    /\ UNCHANGED scanVars
    /\ UNCHANGED tokVars

NextClassify == CallDetectScriptBlock \/ CallDetectDataBlock
SpecClassify == InitClassify /\ [][NextClassify]_vars

InitBrace == InitLines(BracePool)
NextBrace == CallFindClosingBrace
SpecBrace == InitBrace /\ [][NextBrace]_vars

\* the pieces the header lines of SpecDetect are made of
HeaderPieces ==
    {<<"D","A","T","A">>, <<"d","a","t","a">>, <<"T">>, <<" ">>, <<"\t">>,
     <<"(">>, <<"(","A",")">>}
HeaderLines ==
    {Flatten(ps) : ps \in UNION {[1..n -> HeaderPieces] : n \in 0..MaxPieces}}

\* SpecDetect: a line is classified by detectDataBlock, and the file that
\* holds it as the line before a block with the row `1 2 3 // c` is validated
InitDetect ==
    \E t \in HeaderLines :
        /\ files = [u \in Uris |-> IF u = "a.aux" THEN Some(<<t, LnOpen, LnRow3>>)
                                   ELSE undefined]
        /\ HostIdle
        /\ text = t
        /\ fields = undefined
        /\ stripped = undefined
NextDetect == CallDetectDataBlock \/ OnDidOpenTextDocument \/ ScanLine \/ ScanEnd
SpecDetect == InitDetect /\ [][NextDetect]_vars

LnCloseComment == <<"}"," ","/","/"," ","c">>  \* `} // c`
LnOpenCall == <<"{"," ","f","(","x",")"," ","}">>  \* `{ f(x) }`
\* the lines of SpecBlock: the two kinds of block, and braces alone on
\* their line and next to other text
BlockPool ==
    {LnScriptOpen, LnHeader, LnOpen, LnClose, LnCallClose, LnCloseComment,
     LnOpenCall, LnRow1}
InitBlock == \E buffer \in Buffers(BlockPool, MaxLines) : InitFile(buffer)
SpecBlock == InitBlock /\ [][Next]_vars

LnScriptOpenCall == <<"S","C","R","I","P","T"," ","T"," ","{"," ","f","(","x",")">>  \* `SCRIPT T { f(x)`
\* the lines of SpecScriptHeader: SCRIPT headers of every form, met in every
\* state of the validator
ScriptHeaderPool ==
    {LnScriptOpen, LnScriptBare, LnScriptOneLine, LnScriptOpenCall,
     LnHeader, LnOpen, LnClose, LnRow1}
InitScriptHeader == \E buffer \in Buffers(ScriptHeaderPool, MaxLines) : InitFile(buffer)
SpecScriptHeader == InitScriptHeader /\ [][Next]_vars

LnHeaderBrace == <<"B","u","s"," ","(","A",","," ","B",")"," ","{">>  \* `Bus (A, B) {`
LnCallEnd == <<"f","(","x",")",";">>  \* `f(x);`
\* the lines of SpecDataHeader: headers with and without their `{`, a line
\* of header shape that ends with `;`, braces and rows
DataHeaderPool ==
    {LnHeader, LnHeaderBrace, LnDataList, LnDataNoList, LnCallEnd,
     LnOpen, LnClose, LnRow1, LnRow3}
InitDataHeader == \E buffer \in Buffers(DataHeaderPool, MaxLines) : InitFile(buffer)
SpecDataHeader == InitDataHeader /\ [][Next]_vars

LnRow3Indented == <<" "," ","1"," ","2"," ","3"," ","/","/"," ","c">>  \* `  1 2 3 // c`
LnRow1Indented == <<" "," ","1">>  \* `  1`
\* the lines of SpecRange: a data block and rows at column 0 and indented
RangePool ==
    {LnHeader, LnOpen, LnClose, LnRow1, LnRow3, LnRow1Indented, LnRow3Indented}
InitRange == \E buffer \in Buffers(RangePool, MaxLines) : InitFile(buffer)
SpecRange == InitRange /\ [][Next]_vars

LnSubOpenLower == <<"<","s","u","b","d","a","t","a"," ","x",">">>  \* `<subdata x>`
LnSubBare == <<"<","S","U","B","D","A","T","A",">">>  \* `<SUBDATA>`
\* the lines of SpecSubdataScan: the tags in both cases, a tag without the
\* blank the pattern asks for, the block boundaries and a row
SubdataScanPool ==
    {LnSubOpen, LnSubOpenLower, LnSubClose, LnSubBare,
     LnOpen, LnClose, LnHeader, LnDataNoList, LnRow1}

\* the SUBDATA tracker is asked about a line
CallIsInsideSubdataBlock ==
    \E currentLine \in 0..(Len(lines) - 1) :
        /\ position = undefined
        /\ position' = Some([line |-> currentLine, character |-> 0])
        /\ insideSubdata' = Some(isInsideSubdataBlock(lines, currentLine))
        /\ UNCHANGED <<endLine, dataBlockInfo, symbols, hover, scriptDetected, dataDetected,
                       paramList, ranges, helperResults>>
        /\ UNCHANGED scanVars
        /\ UNCHANGED tokVars

InitSubdataScan == InitLines(SubdataScanPool)
NextSubdataScan == CallIsInsideSubdataBlock
SpecSubdataScan == InitSubdataScan /\ [][NextSubdataScan]_vars

LnListOpen == <<"B","u","s"," ","(","A",",">>  \* `Bus (A,`
LnListMid == <<"B",",">>  \* `B,`
LnListClose == <<"C",")">>  \* `C)`
LnHeaderNested == <<"B","u","s"," ","(","f","(","A",")",","," ","B",")">>  \* `Bus (f(A), B)`
\* the lines of SpecParams: parameter lists on one line and over several,
\* closed and not, and one with parentheses inside
ParamPool ==
    {LnHeader, LnListOpen, LnListMid, LnListClose, LnHeaderNested, LnOpen, LnRow1}

\* the parameter list is extracted from a line on
CallExtractParameters ==
    \E startLine \in 0..(Len(lines) - 1) :
        /\ position = undefined
        /\ position' = Some([line |-> startLine, character |-> 0])
        /\ paramList' = Some(extractParameters(lines, startLine))
        /\ UNCHANGED <<endLine, dataBlockInfo, symbols, hover, scriptDetected, dataDetected,
                       insideSubdata, ranges, helperResults>>
        /\ UNCHANGED scanVars
        /\ UNCHANGED tokVars

InitParams == InitLines(ParamPool)
NextParams == CallExtractParameters
SpecParams == InitParams /\ [][NextParams]_vars

\* the lines of SpecFold: SCRIPT headers with and without a brace, one-line
\* SCRIPT blocks, headers on one line and over two, braces
FoldPool ==
    {LnScriptOpen, LnScriptBare, LnScriptOneLineSemi, LnHeaderBrace,
     LnListOpen, LnListClose, LnOpen, LnClose}

\* the host asks for the folding ranges of the document
ProvideFoldingRanges ==
    /\ ranges = undefined
    /\ ranges' = Some(provideFoldingRanges(lines))
    /\ UNCHANGED <<position, endLine, dataBlockInfo, symbols, hover, scriptDetected,
                   dataDetected, insideSubdata, paramList, helperResults>>
    /\ UNCHANGED scanVars
    /\ UNCHANGED tokVars

InitFold == InitLines(FoldPool)
NextFold == ProvideFoldingRanges
SpecFold == InitFold /\ [][NextFold]_vars

LnCommentIndented == <<" "," ","/","/"," ","c">>  \* `  // c`
LnSpaces == <<" "," ">>  \* a line of two spaces
\* the lines of SpecSkip: comments and blank lines, at column 0 and indented,
\* met in every state of the scan
SkipPool ==
    {LnScriptOpen, LnHeader, LnOpen, LnCall, LnRow3,
     LnComment, LnCommentIndented, LnBlank, LnSpaces}
InitSkip == \E buffer \in Buffers(SkipPool, MaxLines) : InitFile(buffer)
SpecSkip == InitSkip /\ [][Next]_vars

\* the lines of SpecStates: every line that moves the scan from one state to
\* another, and a row
StatesPool ==
    {LnScriptOpen, LnScriptBare, LnScriptOneLine, LnHeader, LnHeaderBrace,
     LnOpen, LnClose, LnOpenCall, LnRow1}
InitStates == \E buffer \in Buffers(StatesPool, MaxLines) : InitFile(buffer)
SpecStates == InitStates /\ [][Next]_vars

\* the orders in which the host can list the documents open at activation
OpenOrders ==
    {order \in UNION {[1..k -> Uris] : k \in 0..Cardinality(Uris)} :
        \A m, n \in 1..Len(order) : m # n => order[m] # order[n]}

\* SpecActivate: the extension is activated with some documents open, each
\* with text that differs from its file's; then files are opened and
\* documents edited
InitActivate ==
    \E order \in OpenOrders :
        /\ files = [u \in Uris |-> Some(<<LnScriptOpen, LnCall>>)]
        /\ documents = [u \in Uris |->
                           IF \E k \in 1..Len(order) : order[k] = u
                           THEN Some(<<LnHeader, LnOpen, LnRow1>>) ELSE undefined]
        /\ textDocuments = order
        /\ diagnosticCollection = [u \in Uris |-> undefined]
        /\ pc = "idle"
        /\ document = undefined
        /\ lines = <<>>
        /\ i = 0
        /\ insideDataBlock = FALSE
        /\ insideScriptBlock = FALSE
        /\ currentDataBlockInfo = undefined
        /\ unclosedScriptBlock = undefined
        /\ unclosedDataBlock = undefined
        /\ diagnostics = <<>>
        /\ calls = <<>>
        /\ ViewIdle
        /\ TokIdle
NextActivate ==
    \/ ValidateOpenDocuments
    \/ OnDidOpenTextDocument
    \/ OnDidChangeTextDocument
    \/ ScanLine
    \/ ScanEnd
SpecActivate == InitActivate /\ [][NextActivate]_vars

\* the lines of SpecHelpers: headers of both forms, a list over two lines,
\* SUBDATA tags, a brace and a row with a quoted field
HelperPool ==
    {LnHeader, LnDataList, LnListOpen, LnListClose, LnOpen,
     LnSubOpen, LnSubClose, LnRow2}

\* the five helpers of the hover provider and of the validation provider are
\* called on one line of the document
CallHelperCopies ==
    \E n \in 0..(Len(lines) - 1) :
        /\ helperResults = undefined
        /\ helperResults' =
              Some([line |-> n,
                    hover |->
                        [findDataBlockHeader |-> Hover_findDataBlockHeader(lines, n),
                         extractParameters |-> Hover_extractParameters(lines, n),
                         parseParameters |-> Hover_parseParameters(lines[n + 1]),
                         parseDataLine |-> Hover_parseDataLine(lines[n + 1]),
                         isInsideSubdataBlock |-> Hover_isInsideSubdataBlock(lines, n)],
                    validation |->
                        [findDataBlockHeader |-> findDataBlockHeader(lines, n),
                         extractParameters |-> extractParameters(lines, n),
                         parseParameters |-> parseParameters(lines[n + 1]),
                         parseDataLine |-> parseDataLine(lines[n + 1]),
                         isInsideSubdataBlock |-> isInsideSubdataBlock(lines, n)]])
        /\ UNCHANGED <<position, endLine, dataBlockInfo, symbols, hover, scriptDetected,
                       dataDetected, insideSubdata, paramList, ranges>>
        /\ UNCHANGED scanVars
        /\ UNCHANGED tokVars

InitHelpers == InitLines(HelperPool)
NextHelpers == CallHelperCopies
SpecHelpers == InitHelpers /\ [][NextHelpers]_vars

-----------------------------------------------------------------------------
(* Reference notions for the tokenizer claims, stated by position and not  *)
(* by a scan.                                                              *)

\* offset j of s holds a double quote that is not immediately preceded by a backslash
UnescapedQuoteAt(s, j) == s[j + 1] = "\"" /\ (j = 0 \/ s[j] # "\\")
\* a double-quoted string is open at offset k: an odd number of unescaped quotes before k
QuoteOpenAt(s, k) ==
    Cardinality({j \in 0..(k - 1) : UnescapedQuoteAt(s, j)}) % 2 = 1
\* the offsets of the spaces that lie outside quotes
OutsideSpaces(s) == {k \in 0..(Len(s) - 1) : s[k + 1] = " " /\ ~QuoteOpenAt(s, k)}
\* the maximal runs <<a, b>> (offsets a..b-1) that hold no space outside quotes
Runs(s) ==
    {r \in (0..Len(s)) \X (0..Len(s)) :
        /\ r[1] < r[2]
        /\ \A k \in r[1]..(r[2] - 1) : k \notin OutsideSpaces(s)
        /\ (r[1] = 0 \/ (r[1] - 1) \in OutsideSpaces(s))
        /\ (r[2] = Len(s) \/ r[2] \in OutsideSpaces(s))}
\* the runs in left-to-right order, trimmed, the empty ones dropped
RunsInOrder(s) ==
    LET n == Cardinality(Runs(s))
        nth(m) == CHOOSE r \in Runs(s) : Cardinality({q \in Runs(s) : q[1] < r[1]}) = m - 1
        all == [m \in 1..n |-> Trim(Substring(s, nth(m)[1], nth(m)[2]))]
    IN  SelectSeq(all, LAMBDA f : f # <<>>)
\* the offsets where a `//` starts outside quotes
OutsideComments(s) ==
    {k \in 0..(Len(s) - 2) : s[k + 1] = "/" /\ s[k + 2] = "/" /\ ~QuoteOpenAt(s, k)}

\* C8: parseDataLine returns, in left-to-right order, exactly the trimmed
\* non-empty runs delimited by the spaces outside quotes: a space inside an
\* open quoted string never splits a field, an escaped quote does not toggle
\* the quote state, and no returned field is empty.
C8_ParseDataLineFields ==
    fields # undefined =>
        /\ fields[1] = RunsInOrder(text)
        /\ \A m \in 1..Len(fields[1]) : fields[1][m] # <<>>

\* the case of C8: a quoted string holding a space, after an escaped quote
C8_Witness ==
    /\ fields # undefined
    /\ \E k \in 1..(Len(text) - 1) : text[k] = "\\" /\ text[k + 1] = "\""
    /\ \E k \in 0..(Len(text) - 1) : text[k + 1] = " " /\ QuoteOpenAt(text, k)
    /\ Len(fields[1]) = 2

\* C9: removeEndOfLineComment returns the trimmed prefix before the first
\* `//` outside quotes, and the line unchanged when there is none.
C9_RemoveEndOfLineComment ==
    stripped # undefined =>
        IF OutsideComments(text) = {}
        THEN stripped[1] = text
        ELSE stripped[1] = Trim(Substring(text, 0, Min(OutsideComments(text))))

\* the case of C9: a `//` inside a quoted string followed by one outside it
C9_Witness ==
    /\ stripped # undefined
    /\ \E k \in 0..(Len(text) - 2) :
          text[k + 1] = "/" /\ text[k + 2] = "/" /\ QuoteOpenAt(text, k)
    /\ OutsideComments(text) # {}
    /\ stripped[1] # text

-----------------------------------------------------------------------------
(* Notions the properties of the validator are stated with.                *)

UnclosedScriptKind == "SCRIPT block is missing a closing brace"
UnclosedDataKind == "DATA block is missing a closing brace"
UnclosedKinds == {UnclosedScriptKind, UnclosedDataKind}
SemicolonKind == "Function call in SCRIPT block must end with a semicolon (;)"
FieldKinds == {"Too many fields", "Missing fields"}

\* the positions of ds that hold a diagnostic of one of the kinds on line n
DiagnosticsOn(ds, kinds, n) == {k \in 1..Len(ds) : ds[k].kind \in kinds /\ ds[k].line = n}

\* every `{` of the buffer has a matching `}`: the depth never drops below
\* zero and ends at zero
Balanced(ls) ==
    LET s == Flatten(ls)
        depth(k) == Cardinality({j \in 1..k : s[j] = "{"}) - Cardinality({j \in 1..k : s[j] = "}"})
    IN  /\ \A k \in 1..Len(s) : depth(k) >= 0
        /\ depth(Len(s)) = 0

HasChar(line, c) == \E k \in 1..Len(line) : line[k] = c

\* line n (0-based) is a SCRIPT header whose block is not complete on the line
OpensIncompleteScript(ls, n) ==
    /\ detectScriptBlock(ls[n + 1], n).type # "none"
    /\ ~HasChar(ls[n + 1], "}")
\* no `}` character stands on a line after line n
NoCloseBraceAfter(ls, n) == \A m \in (n + 2)..Len(ls) : ~HasChar(ls[m], "}")

\* a line the loop treats neither as blank or comment, nor as a SCRIPT header,
\* nor as a brace line: a statement or a row
IsPlainLine(line) ==
    /\ ~IsSkippedLine(Trim(line))
    /\ detectScriptBlock(line, 0).type = "none"
    /\ ~StartsWith(Trim(line), <<"{">>)
    /\ Trim(line) # <<"}">>

\* line n follows an opening SUBDATA tag with no closing tag in between
InSubdataRegion(ls, n) ==
    \E o \in 0..(n - 1) :
        /\ MatchSubdataOpen(Trim(ls[o + 1]))
        /\ \A k \in (o + 1)..(n - 1) : ~MatchSubdataClose(Trim(ls[k + 1]))

\* line n lies between an opening SUBDATA tag and its closing tag
BetweenSubdataTags(ls, n) ==
    /\ ~IsSubdataTag(Trim(ls[n + 1]))
    /\ InSubdataRegion(ls, n)
    /\ \E c \in (n + 1)..(Len(ls) - 1) : MatchSubdataClose(Trim(ls[c + 1]))

\* the number of fields of the comment-stripped text of a line
FieldCount(line) == Len(parseDataLine(removeEndOfLineComment(Trim(line))))

\* the header line h parses, on its own, into a non-empty parameter list
HeaderLineParses(ls, h) ==
    \/ /\ MatchDataHeader(ls[h + 1]).ok
       /\ parseParameters(MatchDataHeader(ls[h + 1]).paramText) # <<>>
    \/ /\ MatchStandard(ls[h + 1]).ok
       /\ ~IsDataCallName(MatchStandard(ls[h + 1]).name)
       /\ extractParameters(ls, h) # <<>>

\* the lines before line n that the scan processed as DATA/function headers
HeaderLinesBefore(ls, n) ==
    {h \in 0..(n - 1) : IsDataHeaderLine(ScanPrefix(ls, h), ls[h + 1])}

-----------------------------------------------------------------------------
(* The claims.                                                             *)

\* every SCRIPT header of the buffer carries its `{` on the header line
ScriptHeadersHaveBrace(ls) ==
    \A n \in 0..(Len(ls) - 1) : detectScriptBlock(ls[n + 1], n).type # "script-next-line"

\* C1: a buffer in which every `{` has a matching `}` gets no 'is missing a
\* closing brace' diagnostic, for a SCRIPT block or a DATA block, wherever on
\* their lines the braces stand.  (Stated for the buffers whose SCRIPT
\* headers all carry their `{`, so that every reported block has braces.)
C1_BalancedHasNoUnclosed ==
    \A c \in 1..Len(calls) :
        (Balanced(calls[c].buffer) /\ ScriptHeadersHaveBrace(calls[c].buffer)) =>
            \A k \in 1..Len(calls[c].diagnostics) :
                calls[c].diagnostics[k].kind \notin UnclosedKinds

\* C2: a SCRIPT header on line L named N, not complete on its line and with
\* no `}` after it, gets exactly one unclosed-SCRIPT Error on line L, naming
\* N and spanning the line; and no line is reported as unclosed twice.
C2_UnclosedScriptReportedOnce ==
    \A c \in 1..Len(calls) :
        LET ls == calls[c].buffer
            ds == calls[c].diagnostics
        IN  /\ \A L \in 0..(Len(ls) - 1) :
                (OpensIncompleteScript(ls, L) /\ NoCloseBraceAfter(ls, L)) =>
                    /\ Cardinality(DiagnosticsOn(ds, {UnclosedScriptKind}, L)) = 1
                    /\ \A k \in DiagnosticsOn(ds, {UnclosedScriptKind}, L) :
                          /\ ds[k].name = detectScriptBlock(ls[L + 1], L).name
                          /\ ds[k].severity = "Error"
                          /\ ds[k].startCharacter = 0
                          /\ ds[k].endCharacter = Len(ls[L + 1])
            /\ \A L \in 0..(Len(ls) - 1) :
                  Cardinality(DiagnosticsOn(ds, UnclosedKinds, L)) <= 1

\* the case of C2: two unclosed SCRIPT headers in one buffer, the first
\* reported at the second header and the second at the end of the scan
C2_Witness ==
    \E c \in 1..Len(calls) :
        LET ls == calls[c].buffer
            ds == calls[c].diagnostics
        IN  \E L1, L2 \in 0..(Len(ls) - 1) :
               /\ L1 < L2
               /\ OpensIncompleteScript(ls, L1) /\ NoCloseBraceAfter(ls, L1)
               /\ OpensIncompleteScript(ls, L2)
               /\ detectScriptBlock(ls[L1 + 1], L1).name # detectScriptBlock(ls[L2 + 1], L2).name
               /\ DiagnosticsOn(ds, {UnclosedScriptKind}, L1) # {}
               /\ DiagnosticsOn(ds, {UnclosedScriptKind}, L2) # {}

\* the row case of C3: the loop is about to process a data row in state
\* InData with a header, outside any SUBDATA region, with at least one field
RowInData ==
    /\ pc = "scan"
    /\ i < Len(lines)
    /\ insideDataBlock
    /\ ~insideScriptBlock
    /\ currentDataBlockInfo # undefined
    /\ IsPlainLine(lines[i + 1])
    /\ ~IsSubdataTag(Trim(lines[i + 1]))
    /\ ~InSubdataRegion(lines, i)
    /\ FieldCount(lines[i + 1]) >= 1

\* C3: processing such a row with T fields under a header of P parameters
\* pushes exactly one 'Too many fields' Error (expected P, found T, extra
\* T-P) when T > P, exactly one 'Missing fields' Warning (expected P, found
\* T, missing P-T) when T < P, and nothing when T = P.
C3_FieldCountVerdict ==
    [][RowInData =>
        LET T == FieldCount(lines[i + 1])
            P == Len(currentDataBlockInfo[1].parameters)
            new == SubSeq(diagnostics', Len(diagnostics) + 1, Len(diagnostics'))
        IN  /\ SubSeq(diagnostics', 1, Len(diagnostics)) = diagnostics
            /\ Len(new) = (IF T = P THEN 0 ELSE 1)
            /\ T > P => /\ new[1].kind = "Too many fields"
                        /\ new[1].severity = "Error"
                        /\ new[1].line = i
                        /\ new[1].expected = P /\ new[1].found = T /\ new[1].count = T - P
            /\ T < P => /\ new[1].kind = "Missing fields"
                        /\ new[1].severity = "Warning"
                        /\ new[1].line = i
                        /\ new[1].expected = P /\ new[1].found = T /\ new[1].count = P - T
    ]_vars

\* the case of C3: a row with too few fields and a row with too many were
\* processed under one header, the second after a closed SUBDATA region
C3_Witness ==
    /\ pc = "scan"
    /\ \E a, b \in 1..Len(diagnostics) :
          /\ diagnostics[a].kind = "Missing fields"
          /\ diagnostics[b].kind = "Too many fields"
          /\ diagnostics[b].expected = 2 /\ diagnostics[b].found = 3
    /\ currentDataBlockInfo # undefined

\* C4: no field-count diagnostic is emitted for a line lying between an
\* opening SUBDATA tag and its closing tag inside a DATA block body.
C4_NoFieldDiagnosticInSubdata ==
    \A k \in 1..Len(diagnostics) :
        diagnostics[k].kind \in FieldKinds => ~BetweenSubdataTags(lines, diagnostics[k].line)

\* the statement case of C5: the loop is about to validate a statement of a
\* SCRIPT block, on its own line or between the braces of a one-line block
StatementText ==
    LET line == lines[i + 1]
        t == Trim(line)
    IN  IF detectScriptBlock(line, i).type = "none"
        THEN t
        ELSE Trim(Substring(t, IndexOf(t, <<"{">>) + 1, LastIndexOf(t, <<"}">>)))
StatementInScript ==
    /\ pc = "scan"
    /\ i < Len(lines)
    /\ \/ insideScriptBlock /\ IsPlainLine(lines[i + 1])
       \/ /\ detectScriptBlock(lines[i + 1], i).type = "script-same-line"
          /\ LastIndexOf(Trim(lines[i + 1]), <<"}">>) > IndexOf(Trim(lines[i + 1]), <<"{">>)
    /\ MatchFunctionDef(removeEndOfLineComment(StatementText)).ok

\* C5: such a statement whose comment-stripped text starts with
\* identifier-then-`(` gets exactly one missing-semicolon Error on its line
\* when the text does not end with `;`, and none when it does.
C5_SemicolonVerdict ==
    [][StatementInScript =>
        LET n == Cardinality(DiagnosticsOn(diagnostics', {SemicolonKind}, i))
        IN  /\ n = (IF EndsWith(removeEndOfLineComment(StatementText), <<";">>) THEN 0 ELSE 1)
            /\ \A k \in DiagnosticsOn(diagnostics', {SemicolonKind}, i) :
                  diagnostics'[k].severity = "Error"
    ]_vars

\* the case of C5: a one-line block and a statement on its own line were
\* both reported, and a statement ending with `;` was passed
C5_Witness ==
    /\ pc = "scan"
    /\ i = Len(lines)
    /\ \E a, b, c \in 0..(Len(lines) - 1) :
          /\ detectScriptBlock(lines[a + 1], a).type = "script-same-line"
          /\ DiagnosticsOn(diagnostics, {SemicolonKind}, a) # {}
          /\ lines[b + 1] = LnCall
          /\ DiagnosticsOn(diagnostics, {SemicolonKind}, b) # {}
          /\ lines[c + 1] = LnCallSemi
          /\ ScanPrefix(lines, c).insideScriptBlock
          /\ DiagnosticsOn(diagnostics, {SemicolonKind}, c) = {}

\* C6: two calls of validateDocument on the same buffer yield the same
\* diagnostics, whatever calls ran before them.
C6_SameBufferSameDiagnostics ==
    \A a, b \in 1..Len(calls) :
        calls[a].buffer = calls[b].buffer => calls[a].diagnostics = calls[b].diagnostics

\* the case of C6: the same buffer validated twice with diagnostics, a call
\* on another buffer in between
C6_Witness ==
    /\ Len(calls) = 3
    /\ calls[1].buffer = calls[3].buffer
    /\ calls[2].buffer # calls[1].buffer
    /\ calls[1].diagnostics # <<>>
    /\ calls[2].diagnostics # <<>>
    /\ calls[2].diagnostics # calls[1].diagnostics

\* the last completed call for the document u
LastCallFor(u) ==
    calls[Max({c \in 1..Len(calls) : calls[c].uri = u})]

\* C7: the set stored for a document is exactly the diagnostics computed
\* from the buffer of the most recent call for it.
C7_StoredIsLatestAnalysis ==
    \A u \in Uris :
        IF \E c \in 1..Len(calls) : calls[c].uri = u
        THEN diagnosticCollection[u] = Some(Analyze(LastCallFor(u).buffer))
        ELSE diagnosticCollection[u] = undefined

\* the case of C7: a document validated twice on different buffers, with
\* different non-empty results
C7_Witness ==
    \E u \in Uris :
        \E a, b \in 1..Len(calls) :
            /\ a < b
            /\ calls[a].uri = u /\ calls[b].uri = u
            /\ calls[a].diagnostics # <<>>
            /\ calls[b].diagnostics # <<>>
            /\ calls[a].diagnostics # calls[b].diagnostics
            /\ b = Len(calls)
            /\ pc = "idle"

\* C10: a field-count diagnostic is emitted only for a row of a block whose
\* header line parses into a non-empty parameter list.
C10_NoFieldDiagnosticWithoutHeader ==
    pc = "scan" =>
        \A k \in 1..Len(diagnostics) :
            diagnostics[k].kind \in FieldKinds =>
                /\ HeaderLinesBefore(lines, diagnostics[k].line) # {}
                /\ HeaderLineParses(lines, Max(HeaderLinesBefore(lines, diagnostics[k].line)))

\* the severity each kind of diagnostic is given
SeverityOf ==
    [k \in UnclosedKinds \cup {SemicolonKind} \cup FieldKinds |->
        IF k = "Missing fields" THEN "Warning" ELSE "Error"]

\* every diagnostic of ds is of one of the five kinds, with its severity
WellSevered(ds) ==
    \A k \in 1..Len(ds) :
        /\ ds[k].kind \in DOMAIN SeverityOf
        /\ ds[k].severity = SeverityOf[ds[k].kind]

\* C11: every diagnostic validateDocument emits, pushed during the scan or
\* stored at its end, is an unclosed-SCRIPT, unclosed-DATA, missing-semicolon
\* or 'Too many fields' Error or a 'Missing fields' Warning, and nothing else.
C11_SeverityFixedByKind ==
    /\ WellSevered(diagnostics)
    /\ \A u \in Uris :
          diagnosticCollection[u] # undefined => WellSevered(diagnosticCollection[u][1])

\* the case of C11: one call stored diagnostics of three kinds, a Warning
\* among the Errors
C11_Witness ==
    /\ pc = "idle"
    /\ diagnosticCollection["a.aux"] # undefined
    /\ LET ds == diagnosticCollection["a.aux"][1]
       IN  /\ \E k \in 1..Len(ds) : ds[k].kind = SemicolonKind /\ ds[k].severity = "Error"
           /\ \E k \in 1..Len(ds) : ds[k].kind = "Missing fields" /\ ds[k].severity = "Warning"
           /\ \E k \in 1..Len(ds) : ds[k].kind = UnclosedDataKind /\ ds[k].severity = "Error"

\* the running brace count of findClosingBrace(ls, startLine) after the first
\* k characters of line n: +1 per `{`, -1 per `}`, from the start of startLine
BraceCountAt(ls, startLine, n, k) ==
    LET s == Flatten(SubSeq(ls, startLine + 1, n)) \o SubSeq(ls[n + 1], 1, k)
    IN  Cardinality({j \in 1..Len(s) : s[j] = "{"}) - Cardinality({j \in 1..Len(s) : s[j] = "}"})

\* the lines from startLine on that hold a brace after which the count is zero
ZeroLines(ls, startLine) ==
    {n \in startLine..(Len(ls) - 1) :
        \E k \in 1..Len(ls[n + 1]) :
            /\ ls[n + 1][k] \in {"{", "}"}
            /\ BraceCountAt(ls, startLine, n, k) = 0}

\* the lines from startLine on that hold a `}` after which the count is zero
ClosedLines(ls, startLine) ==
    {n \in startLine..(Len(ls) - 1) :
        \E k \in 1..Len(ls[n + 1]) :
            /\ ls[n + 1][k] = "}"
            /\ BraceCountAt(ls, startLine, n, k) = 0}

\* C14 as stated: findClosingBrace returns the first line on which the
\* running brace count returns to zero, the last line index when it never
\* does, and in all cases a line >= startLine.
C14_FirstReturnToZero ==
    endLine # undefined =>
        LET startLine == position[1].line
        IN  /\ endLine[1] = (IF ZeroLines(lines, startLine) = {} THEN Len(lines) - 1
                             ELSE Min(ZeroLines(lines, startLine)))
            /\ endLine[1] >= startLine

\* C14 amended: findClosingBrace returns the first line on which a `}` brings
\* the running brace count to zero, the last line index when no `}` does,
\* and in all cases a line >= startLine.
C14_FirstClosingToZero ==
    endLine # undefined =>
        LET startLine == position[1].line
        IN  /\ endLine[1] = (IF ClosedLines(lines, startLine) = {} THEN Len(lines) - 1
                             ELSE Min(ClosedLines(lines, startLine)))
            /\ endLine[1] >= startLine

\* the case of C14: a search from a line below the top that passes a stray
\* `}` or a nested `{`, and ends on a matching `}` before the last line
C14_Witness ==
    /\ endLine # undefined
    /\ position[1].line > 0
    /\ endLine[1] > position[1].line
    /\ endLine[1] < Len(lines) - 1
    /\ endLine[1] \in ClosedLines(lines, position[1].line)

\* the brace depth at the start of line n: the `{` less the `}` of the lines
\* before it
DepthBefore(ls, n) == BraceCountAt(ls, 0, n, 0)

\* the lines that open a SCRIPT, DATA or function block: header lines that do
\* not lie inside the body of a block
BlockHeaderLines(ls) ==
    {n \in 0..(Len(ls) - 1) :
        /\ \/ detectScriptBlock(ls[n + 1], n).type # "none"
           \/ detectDataBlock(ls[n + 1]).type # "none"
        /\ DepthBefore(ls, n) = 0}

\* C12: the outline holds exactly one entry per SCRIPT, DATA or function
\* block of the buffer, in ascending order of header line; a line inside the
\* body of a block gets no entry of its own.  (Stated for the buffers that
\* start with a header, whose braces all match and that hold no SCRIPT header
\* inside a body, and for the calls that return.)
C12_OneEntryPerBlock ==
    (/\ symbols # undefined
     /\ ~symbols[1].threw
     /\ 0 \in BlockHeaderLines(lines)
     /\ Balanced(lines)
     /\ \A n \in 0..(Len(lines) - 1) :
           detectScriptBlock(lines[n + 1], n).type # "none" => DepthBefore(lines, n) = 0) =>
        LET entries == symbols[1].symbols
        IN  /\ {entries[k].range.start.line : k \in 1..Len(entries)} = BlockHeaderLines(lines)
            /\ \A a, b \in 1..Len(entries) :
                  a < b => entries[a].range.start.line < entries[b].range.start.line

\* C13: every outline entry built has its selection range (the header line
\* from column 0 to its end) contained in its full range, so no construction
\* fails and the outline operation returns.
C13_SelectionInsideFullRange ==
    symbols # undefined =>
        /\ \A k \in 1..Len(symbols[1].built) :
              /\ symbols[1].built[k].selectionRange =
                     Range(Position(symbols[1].built[k].range.start.line, 0),
                           Position(symbols[1].built[k].range.start.line,
                                    Len(lines[symbols[1].built[k].range.start.line + 1])))
              /\ Contains(symbols[1].built[k].range, symbols[1].built[k].selectionRange)
        /\ ~symbols[1].threw

\* the header a header line declares on its own line: the name before `(`
\* and the comma-separated names of its list
HeaderOf(line) ==
    IF MatchDataHeader(line).ok
    THEN [blockName |-> MatchDataHeader(line).blockName,
          parameters |-> parseParameters(
              Substring(line, IndexOf(line, <<"[">>) + 1, IndexOf(line, <<"]">>)))]
    ELSE [blockName |-> Trim(Substring(line, 0, IndexOf(line, <<"(">>))),
          parameters |-> parseParameters(
              Substring(line, IndexOf(line, <<"(">>) + 1, IndexOf(line, <<")">>)))]

\* a line that bounds a block: a standalone `}`, a `name(` header that yields
\* no parameters, or a `DATA(` line that is not of the shape DATA(name, [params])
IsBlockBoundary(ls, n) ==
    \/ Trim(ls[n + 1]) = <<"}">>
    \/ /\ MatchStandard(ls[n + 1]).ok
       /\ ~IsDataCallName(MatchStandard(ls[n + 1]).name)
       /\ extractParameters(ls, n) = <<>>
    \/ /\ MatchDataParen(ls[n + 1])
       /\ ~MatchDataHeader(ls[n + 1]).ok

\* the header lines at or above line n that parse into a non-empty list
ParsingHeadersUpTo(ls, n) == {h \in 0..n : HeaderLineParses(ls, h)}

\* C15: findDataBlockHeader never returns a header that lies above a block
\* boundary: when it returns a header for a line, no standalone `}`, no
\* `name(` header without parameters and no unmatched `DATA(` line stands
\* between the header it returns and the line.
C15_NoHeaderAcrossBoundary ==
    (dataBlockInfo # undefined /\ dataBlockInfo[1] # undefined) =>
        LET currentLine == position[1].line
            H == Max(ParsingHeadersUpTo(lines, currentLine))
        IN  /\ ParsingHeadersUpTo(lines, currentLine) # {}
            /\ \A n \in (H + 1)..currentLine : ~IsBlockBoundary(lines, n)

\* a line the scan is to pass over: blank, comment-only, `{`, or a data row
\* that is not shaped like `name(`
IsPassedOver(line) ==
    \/ Trim(line) = <<>>
    \/ StartsWith(Trim(line), <<"/", "/">>)
    \/ Trim(line) = <<"{">>
    \/ /\ ~MatchStandard(line).ok
       /\ Trim(line) # <<"}">>
       /\ ~HasChar(line, "{") /\ ~HasChar(line, "}")

\* C16: for a line below a header H with a non-empty parameter list, when
\* the line and every line between H and it is blank, a comment, `{` or a
\* row not shaped like `name(`, findDataBlockHeader returns the name of H
\* and its parameters in declared order.
C16_HeaderFoundAcrossRows ==
    dataBlockInfo # undefined =>
        LET currentLine == position[1].line
        IN  \A H \in 0..(currentLine - 1) :
               (/\ HeaderLineParses(lines, H)
                /\ \A n \in (H + 1)..currentLine : IsPassedOver(lines[n + 1])) =>
                   dataBlockInfo[1] = Some(HeaderOf(lines[H + 1]))

\* the case of C16: the header of a row found across a `{`, a comment or a
\* blank line and another row
C16_Witness ==
    /\ dataBlockInfo # undefined
    /\ position[1].line = 3
    /\ HeaderLineParses(lines, 0)
    /\ lines[2] = LnOpen
    /\ lines[3] \in {LnComment, LnBlank}
    /\ lines[4] = LnRow1
    /\ dataBlockInfo[1] # undefined
    /\ Len(dataBlockInfo[1][1].parameters) = 2
    /\ dataBlockInfo[1][1].parameters[2] = <<"B">>

\* the fields of a line as stretches of it: the runs between the spaces
\* outside quotes, each narrowed to its text, <<a, b>> for the offsets a..b-1
FieldSpans(s) ==
    LET spans == {<<r[1] + (CHOOSE d \in 0..Len(s) :
                              /\ r[1] + d < r[2]
                              /\ ~IsSpace(s[r[1] + d + 1])
                              /\ \A e \in 0..(d - 1) : IsSpace(s[r[1] + e + 1])),
                    r[2] - (CHOOSE d \in 0..Len(s) :
                              /\ r[2] - d > r[1]
                              /\ ~IsSpace(s[r[2] - d])
                              /\ \A e \in 0..(d - 1) : IsSpace(s[r[2] - e]))>> :
                  r \in {q \in Runs(s) : Trim(Substring(s, q[1], q[2])) # <<>>}}
    IN  spans

\* the k-th (0-based) field span of s
FieldSpan(s, k) ==
    CHOOSE r \in FieldSpans(s) : Cardinality({q \in FieldSpans(s) : q[1] < r[1]}) = k

\* C17: provideHover returns a hover only for a cursor on the k-th field of
\* a data row, k less than the number of parameters of the resolved header,
\* and the hover then reports parameters[k], the k-th token and position
\* k+1 of the parameter count; it returns nothing on blank and comment
\* lines, `name(` lines, brace lines, SUBDATA tags, lines inside a SUBDATA
\* region, and when no header resolves.
C17_HoverOnlyOnDeclaredField ==
    (hover # undefined /\ hover[1] # undefined) =>
        LET n == position[1].line
            line == lines[n + 1]
            h == hover[1][1]
            header == findDataBlockHeader(lines, n)
        IN  /\ Trim(line) # <<>>
            /\ ~StartsWith(Trim(line), <<"/", "/">>)
            /\ ~MatchStandard(line).ok
            /\ Trim(line) \notin {<<"{">>, <<"}">>}
            /\ ~IsSubdataTag(Trim(line))
            /\ ~InSubdataRegion(lines, n)
            /\ header # undefined
            /\ \E k \in 0..(Len(header[1].parameters) - 1) :
                  /\ k < Cardinality(FieldSpans(line))
                  /\ position[1].character >= FieldSpan(line, k)[1]
                  /\ position[1].character <= FieldSpan(line, k)[2]
                  /\ h.fieldName = header[1].parameters[k + 1]
                  /\ h.fieldValue = Substring(line, FieldSpan(line, k)[1], FieldSpan(line, k)[2])
                  /\ h.fieldIndex = k + 1
                  /\ h.fieldCount = Len(header[1].parameters)
                  /\ h.blockName = header[1].blockName

\* C18: the field a hover presents is a field of the comment-stripped row,
\* the one field-count validation counts: no hover presents the text of a
\* trailing `//` comment as a field value.
C18_HoverFieldsAreValidatedFields ==
    (hover # undefined /\ hover[1] # undefined) =>
        LET line == lines[position[1].line + 1]
            validated == parseDataLine(removeEndOfLineComment(Trim(line)))
            h == hover[1][1]
        IN  /\ h.fieldIndex <= Len(validated)
            /\ h.fieldValue = validated[h.fieldIndex]
            /\ \A c \in OutsideComments(line) : position[1].character < c

\* C19: the classes SCRIPT-open, DATA/function-open, brace-open and
\* brace-close exclude one another (plain being the rest): no line is
\* recognized by both detectScriptBlock and detectDataBlock, and neither
\* recognizes a line that starts with `{` or equals `}`.
C19_ClassesExclusive ==
    LET t == Trim(text)
        isBrace == StartsWith(t, <<"{">>) \/ t = <<"}">>
    IN  /\ (scriptDetected # undefined /\ dataDetected # undefined) =>
              ~(scriptDetected[1].info.type # "none" /\ dataDetected[1].type # "none")
        /\ (scriptDetected # undefined /\ isBrace) => scriptDetected[1].info.type = "none"
        /\ (dataDetected # undefined /\ isBrace) => dataDetected[1].type = "none"

\* the case of C19: a SCRIPT header holding a `(`, and a `DATA (` line
\* holding the word SCRIPT, each recognized by one detector only
C19_Witness ==
    /\ scriptDetected # undefined
    /\ dataDetected # undefined
    /\ HasChar(text, "(")
    /\ HasChar(text, "{")
    /\ scriptDetected[1].info.type = "script-same-line"
    /\ dataDetected[1].type = "none"

\* the ways to read the trimmed line t as SCRIPT in any case, white space, a
\* name of word characters at offsets a..b-1 (none when a = b), and white
\* space up to offset c: the triples <<a, b, c>>
ScriptHeaderReadings(t) ==
    IF Len(t) < 6 \/ LowerString(SubSeq(t, 1, 6)) # KwScript THEN {}
    ELSE UNION {
           UNION {
             {<<a, b, c>> : c \in {c \in b..Len(t) :
                                     /\ \A k \in (b + 1)..c : IsSpace(t[k])
                                     /\ (a = b => a = c)}}
             : b \in {b \in a..Len(t) : \A k \in (a + 1)..b : IsWord(t[k])}}
           : a \in {a \in 6..Len(t) : \A k \in 7..a : IsSpace(t[k])}}

\* the readings of t as a SCRIPT header followed by `{`, or by nothing
SameLineReadings(t) ==
    {r \in ScriptHeaderReadings(t) : r[3] < Len(t) /\ t[r[3] + 1] = "{"}
NextLineReadings(t) ==
    {r \in ScriptHeaderReadings(t) : r[3] = Len(t)}
NameOfReading(t, r) ==
    IF r[1] = r[2] THEN UnnamedScript ELSE SubSeq(t, r[1] + 1, r[2])

\* C20: detectScriptBlock, ignoring case and leading white space: SCRIPT, an
\* optional name, then `{` is 'script-same-line', complete iff a `}` stands
\* after the first `{`; SCRIPT with an optional name and nothing else is
\* 'script-next-line' with contentStartLine = lineIndex + 1; any other line
\* is 'none'; an unnamed header is named 'Unnamed Script'.
C20_ScriptHeaderClassification ==
    scriptDetected # undefined =>
        LET t == Trim(text)
            info == scriptDetected[1].info
            lineIndex == scriptDetected[1].lineIndex
        IN  IF SameLineReadings(t) # {}
            THEN /\ info.type = "script-same-line"
                 /\ \A r \in SameLineReadings(t) : info.name = NameOfReading(t, r)
                 /\ info.isComplete =
                       (\E k \in 1..Len(t) :
                           t[k] = "}" /\ \E j \in 1..(k - 1) : t[j] = "{")
                 /\ info.contentStartLine = lineIndex
            ELSE IF NextLineReadings(t) # {}
            THEN /\ info.type = "script-next-line"
                 /\ \A r \in NextLineReadings(t) : info.name = NameOfReading(t, r)
                 /\ info.contentStartLine = lineIndex + 1
            ELSE info.type = "none"

\* the case of C20: a mixed-case named header, complete on its line, met as
\* line 1 of a document
C20_Witness ==
    /\ scriptDetected # undefined
    /\ scriptDetected[1].lineIndex = 1
    /\ scriptDetected[1].info.type = "script-same-line"
    /\ scriptDetected[1].info.isComplete
    /\ scriptDetected[1].info.name = <<"T">>
    /\ SubSeq(Trim(text), 1, 6) = <<"S","c","r","i","p","t">>

\* the line s, after leading white space, reads DATA in any case, white
\* space, `(`
IsDataParenLine(s) ==
    \E a \in 0..Len(s) : \E b \in (a + 4)..(Len(s) - 1) :
        /\ \A k \in 1..a : IsSpace(s[k])
        /\ LowerString(SubSeq(s, a + 1, a + 4)) = KwData
        /\ \A k \in (a + 5)..b : IsSpace(s[k])
        /\ s[b + 1] = "("
\* the ends b of the names s[a+1..b] that start at offset a of s and are
\* followed by white space and `(`
NameEnds(s, a) ==
    {b \in (a + 1)..(Len(s) - 1) :
        /\ IsIdentStart(s[a + 1])
        /\ \A k \in (a + 2)..b : IsWord(s[k])
        /\ \E c \in b..(Len(s) - 1) :
              /\ \A k \in (b + 1)..c : IsSpace(s[k])
              /\ s[c + 1] = "("}
\* an indented `name(` line that is not a `DATA (` line
IsIndentedNameParen(s) ==
    /\ ~IsDataParenLine(s)
    /\ \E a \in 1..(Len(s) - 1) :
          /\ \A k \in 1..a : IsSpace(s[k])
          /\ NameEnds(s, a) # {}

\* C21: detectDataBlock gives kind data with the name DATA to a line that
\* starts, in any case and after any white space, with DATA then `(`;
\* otherwise kind function with the name to a line whose name starts at
\* column 0; otherwise none.  An indented `name(` line is none: the validator
\* stores no header for it and reports no field count for the rows below it.
C21_DataBlockClassification ==
    /\ dataDetected # undefined =>
          LET d == dataDetected[1]
          IN  IF IsDataParenLine(text)
              THEN d.type = "data" /\ d.name = NameDATA
              ELSE IF NameEnds(text, 0) # {}
              THEN /\ d.type = "function"
                   /\ \A b \in NameEnds(text, 0) : d.name = SubSeq(text, 1, b)
              ELSE d.type = "none" /\ d.name = <<>>
    /\ IsIndentedNameParen(text) =>
          /\ dataDetected # undefined => dataDetected[1].type = "none"
          /\ currentDataBlockInfo = undefined
          /\ \A k \in 1..Len(diagnostics) : diagnostics[k].kind \notin FieldKinds
          /\ \A c \in 1..Len(calls) : calls[c].diagnostics = <<>>

\* the case of C21: the indented header ` T(A)` is classified none, and the
\* call on it, `{` and the three-field row is over
C21_Witness ==
    /\ text = <<" ", "T", "(", "A", ")">>
    /\ dataDetected # undefined
    /\ dataDetected[1].type = "none"
    /\ Len(calls) = 1
    /\ pc = "idle"

\* the loop of validateDocument is about to process line i
Scanning == pc = "scan" /\ i < Len(lines)
\* the line holds one `}` and white space, nothing else
IsCloseBraceOnly(line) ==
    \E k \in 1..Len(line) :
        /\ line[k] = "}"
        /\ \A j \in (1..Len(line)) \ {k} : IsSpace(line[j])
\* the first character of the line that is not white space is c
FirstCharIs(line, c) ==
    \E k \in 1..Len(line) :
        /\ line[k] = c
        /\ \A j \in 1..(k - 1) : IsSpace(line[j])
\* the line reads as a SCRIPT header, with its `{` or without
IsScriptHeaderLine(line) ==
    SameLineReadings(Trim(line)) \cup NextLineReadings(Trim(line)) # {}

\* C22: in every state, processing a line that is exactly `}` clears both
\* flags, the header and both markers and pushes no diagnostic; a line that
\* holds a `}` next to other text (and is neither a SCRIPT header nor a line
\* starting with `{`, which have their own rules) does not close anything:
\* flags and markers stay as they are, and inside a block so does the header.
C22_CloseBraceResets ==
    [][Scanning =>
        LET line == lines[i + 1]
        IN  /\ IsCloseBraceOnly(line) =>
                  /\ ~insideScriptBlock'
                  /\ ~insideDataBlock'
                  /\ currentDataBlockInfo' = undefined
                  /\ unclosedScriptBlock' = undefined
                  /\ unclosedDataBlock' = undefined
                  /\ diagnostics' = diagnostics
            /\ (/\ HasChar(line, "}")
                /\ ~IsCloseBraceOnly(line)
                /\ ~FirstCharIs(line, "{")
                /\ ~IsScriptHeaderLine(line)) =>
                  /\ insideScriptBlock' = insideScriptBlock
                  /\ insideDataBlock' = insideDataBlock
                  /\ unclosedScriptBlock' = unclosedScriptBlock
                  /\ unclosedDataBlock' = unclosedDataBlock
                  /\ (insideScriptBlock \/ insideDataBlock) =>
                        currentDataBlockInfo' = currentDataBlockInfo
    ]_vars

\* the case of C22: a `} // c` line was taken for a row of the open DATA
\* block, which stayed open until the `}` line after it closed it
C22_Witness ==
    /\ pc = "scan"
    /\ i = 4
    /\ lines[3] = LnCloseComment
    /\ lines[4] = LnClose
    /\ \E k \in 1..Len(diagnostics) :
          diagnostics[k].kind \in FieldKinds /\ diagnostics[k].line = 2
    /\ ~insideDataBlock
    /\ unclosedDataBlock = undefined
    /\ currentDataBlockInfo = undefined

\* the line holds one `{` and white space, nothing else
IsOpenBraceOnly(line) ==
    \E k \in 1..Len(line) :
        /\ line[k] = "{"
        /\ \A j \in (1..Len(line)) \ {k} : IsSpace(line[j])
\* the text between the first `{` and the last `}` of a line holding both in
\* this order, without the white space around it
InnerContent(line) ==
    LET open == Min({k \in 1..Len(line) : line[k] = "{"})
        close == Max({k \in 1..Len(line) : line[k] = "}"})
    IN  Trim(SubSeq(line, open + 1, close - 1))
\* the statement s, its comment removed, is a call that lacks its semicolon
IsCallWithoutSemicolon(s) ==
    LET c == removeEndOfLineComment(s)
    IN  NameEnds(c, 0) # {} /\ c[Len(c)] # ";"
\* the diagnostics the step on line i has pushed
Pushed == SubSeq(diagnostics', Len(diagnostics) + 1, Len(diagnostics'))
\* the step on line i has pushed the verdict on the statement s: the
\* semicolon Error on line i if s is a call without semicolon, nothing if not
PushedVerdictOn(s) ==
    /\ SubSeq(diagnostics', 1, Len(diagnostics)) = diagnostics
    /\ Len(Pushed) = (IF IsCallWithoutSemicolon(s) THEN 1 ELSE 0)
    /\ \A k \in 1..Len(Pushed) : Pushed[k].kind = SemicolonKind /\ Pushed[k].line = i

\* C23: processing a line that starts with `{`.  In InScript: with a `}`
\* after the `{` the inner content is checked as a statement, unclosedScript
\* is cleared and the state is Idle; a bare `{` changes nothing.  In any other
\* state: the state becomes InData, with unclosedData = {this line, name of
\* the stored header} if a header is stored and with no marker if none is.
C23_OpenBraceStep ==
    [][(Scanning /\ FirstCharIs(lines[i + 1], "{")) =>
        LET line == lines[i + 1]
        IN  IF insideScriptBlock
            THEN /\ HasChar(line, "}") =>
                       /\ PushedVerdictOn(InnerContent(line))
                       /\ unclosedScriptBlock' = undefined
                       /\ ~insideScriptBlock'
                       /\ ~insideDataBlock'
                       /\ UNCHANGED <<currentDataBlockInfo, unclosedDataBlock>>
                 /\ IsOpenBraceOnly(line) =>
                       UNCHANGED <<insideScriptBlock, insideDataBlock, currentDataBlockInfo,
                                   unclosedScriptBlock, unclosedDataBlock, diagnostics>>
            ELSE /\ insideDataBlock'
                 /\ ~insideScriptBlock'
                 /\ UNCHANGED <<currentDataBlockInfo, diagnostics>>
                 /\ unclosedScriptBlock' = undefined
                 /\ unclosedDataBlock' =
                       IF currentDataBlockInfo # undefined
                       THEN Some([line |-> i, name |-> currentDataBlockInfo[1].blockName])
                       ELSE undefined
    ]_vars

\* the case of C23: `{ f(x) }` closed the SCRIPT block of line 0 and got its
\* statement reported, and the `{` of line 3 opened the block of `Bus (A, B)`
C23_Witness ==
    /\ pc = "scan"
    /\ i = 4
    /\ lines = <<LnScriptOpen, LnOpenCall, LnHeader, LnOpen>>
    /\ Len(diagnostics) = 1
    /\ diagnostics[1].kind = SemicolonKind
    /\ diagnostics[1].line = 1
    /\ insideDataBlock
    /\ unclosedScriptBlock = undefined
    /\ unclosedDataBlock = Some([line |-> 3, name |-> <<"B","u","s">>])

\* the markers pending before the step, as the reports they call for
PendingMarkers ==
    (IF unclosedScriptBlock # undefined
     THEN <<[kind |-> UnclosedScriptKind, marker |-> unclosedScriptBlock[1]]>> ELSE <<>>)
    \o
    (IF unclosedDataBlock # undefined
     THEN <<[kind |-> UnclosedDataKind, marker |-> unclosedDataBlock[1]]>> ELSE <<>>)
\* the line holds a `{` and, after it, a `}`
HasBracePair(line) ==
    \E k \in 1..Len(line) : \E j \in (k + 1)..Len(line) : line[k] = "{" /\ line[j] = "}"

\* C24: processing a SCRIPT header line, in any state.  First one 'missing a
\* closing brace' Error is pushed for each pending marker, before anything
\* about the new line.  Then, if the header is complete on its line, its
\* inline content is checked and the state is Idle with header and markers
\* cleared; if not, the state is InScript with unclosedScript = {this line,
\* its name} and unclosedData and the header cleared.
C24_ScriptHeaderStep ==
    [][(Scanning /\ IsScriptHeaderLine(lines[i + 1])) =>
        LET line == lines[i + 1]
            t == Trim(line)
            P == Len(PendingMarkers)
        IN  /\ SubSeq(diagnostics', 1, Len(diagnostics)) = diagnostics
            /\ Len(Pushed) >= P
            /\ \A k \in 1..P :
                  /\ Pushed[k].kind = PendingMarkers[k].kind
                  /\ Pushed[k].line = PendingMarkers[k].marker.line
                  /\ Pushed[k].name = PendingMarkers[k].marker.name
                  /\ Pushed[k].severity = "Error"
            /\ \A k \in (P + 1)..Len(Pushed) :
                  Pushed[k].kind = SemicolonKind /\ Pushed[k].line = i
            /\ currentDataBlockInfo' = undefined
            /\ unclosedDataBlock' = undefined
            /\ ~insideDataBlock'
            /\ IF HasBracePair(line)
               THEN /\ Len(Pushed) - P =
                          (IF IsCallWithoutSemicolon(InnerContent(line)) THEN 1 ELSE 0)
                    /\ ~insideScriptBlock'
                    /\ unclosedScriptBlock' = undefined
               ELSE /\ insideScriptBlock'
                    /\ \A r \in SameLineReadings(t) \cup NextLineReadings(t) :
                          unclosedScriptBlock' =
                              Some([line |-> i, name |-> NameOfReading(t, r)])
    ]_vars

\* the case of C24: the one-line header of line 2 found the DATA block of
\* line 1 open: the block was reported first, the statement of the header
\* line second, and the state is Idle
C24_Witness ==
    /\ pc = "scan"
    /\ i = 3
    /\ lines[3] = LnScriptOneLine
    /\ Len(diagnostics) = 2
    /\ diagnostics[1].kind = UnclosedDataKind
    /\ diagnostics[1].line = 1
    /\ diagnostics[2].kind = SemicolonKind
    /\ diagnostics[2].line = 2
    /\ ~insideScriptBlock
    /\ ~insideDataBlock
    /\ unclosedDataBlock = undefined

\* the line is a `DATA (` line or a `name(` line at column 0, and its last
\* character that is not white space is not `;`
IsBlockHeaderLine(line) ==
    /\ IsDataParenLine(line) \/ NameEnds(line, 0) # {}
    /\ ~FirstCharIs([k \in 1..Len(line) |-> line[Len(line) + 1 - k]], ";")

\* C25: processing a DATA/function header line that does not end with `;`
\* in state Idle stores the header resolver's result for the line as the
\* current header and leaves the state Idle, also when the line carries its
\* `{`; and no line processed in state Idle gets a field-count diagnostic:
\* the rows after a header are not validated before a line starting with `{`.
C25_DataHeaderStep ==
    [][(Scanning /\ ~insideScriptBlock /\ ~insideDataBlock) =>
        /\ IsBlockHeaderLine(lines[i + 1]) =>
              /\ currentDataBlockInfo' = findDataBlockHeader(lines, i)
              /\ ~insideScriptBlock'
              /\ ~insideDataBlock'
        /\ SubSeq(diagnostics', 1, Len(diagnostics)) = diagnostics
        /\ \A k \in 1..Len(Pushed) : Pushed[k].kind \notin FieldKinds
        /\ ~FirstCharIs(lines[i + 1], "{") => ~insideDataBlock'
    ]_vars

\* the case of C25: the header `Bus (A, B) {` was stored with its two
\* parameters and the row `1` after it was passed over in state Idle
C25_Witness ==
    /\ pc = "scan"
    /\ i = 2
    /\ lines[1] = LnHeaderBrace
    /\ lines[2] = LnRow1
    /\ currentDataBlockInfo =
          Some([blockName |-> <<"B","u","s">>, parameters |-> << <<"A">>, <<"B">> >>])
    /\ ~insideDataBlock
    /\ ~insideScriptBlock
    /\ diagnostics = <<>>

\* the line is empty or white space
IsBlankLine(line) == \A k \in 1..Len(line) : IsSpace(line[k])
\* the first two characters of the line that are not white space are `//`
IsCommentLine(line) ==
    \E k \in 1..(Len(line) - 1) :
        /\ line[k] = "/" /\ line[k + 1] = "/"
        /\ \A j \in 1..(k - 1) : IsSpace(line[j])
\* a line that is neither blank, nor a comment, nor a SCRIPT header, nor a
\* line starting with `{`, nor `}`
IsBodyLine(line) ==
    /\ ~IsBlankLine(line)
    /\ ~IsCommentLine(line)
    /\ ~IsScriptHeaderLine(line)
    /\ ~FirstCharIs(line, "{")
    /\ ~IsCloseBraceOnly(line)

\* C26: while InScript every body line is checked as a script statement,
\* also one shaped like a DATA/function header, and stores no header and
\* changes no flag or marker; a field-count diagnostic is pushed only for a
\* line processed in state InData with a stored header; a semicolon
\* diagnostic is pushed in state InData or Idle only for a SCRIPT header line.
C26_StatementsAndRowsApart ==
    [][Scanning =>
        LET line == lines[i + 1]
        IN  /\ (insideScriptBlock /\ IsBodyLine(line)) =>
                  /\ PushedVerdictOn(Trim(line))
                  /\ UNCHANGED <<insideScriptBlock, insideDataBlock, currentDataBlockInfo,
                                 unclosedScriptBlock, unclosedDataBlock>>
            /\ (\E k \in 1..Len(Pushed) : Pushed[k].kind \in FieldKinds) =>
                  /\ insideDataBlock
                  /\ ~insideScriptBlock
                  /\ currentDataBlockInfo # undefined
            /\ (\E k \in 1..Len(Pushed) : Pushed[k].kind = SemicolonKind) =>
                  insideScriptBlock \/ IsScriptHeaderLine(line)
    ]_vars

\* the case of C26: inside the SCRIPT block of line 0 the line `Bus (A, B)`
\* was checked as a statement and reported, and no header was stored
C26_Witness ==
    /\ pc = "scan"
    /\ i = 2
    /\ lines[1] = LnScriptOpen
    /\ lines[2] = LnHeader
    /\ Len(diagnostics) = 1
    /\ diagnostics[1].kind = SemicolonKind
    /\ diagnostics[1].line = 1
    /\ insideScriptBlock
    /\ currentDataBlockInfo = undefined

\* the offset, in the line, where its comment-stripped text ends: after the
\* last character that is not white space before the first `//` outside quotes
StrippedEnd(line) ==
    LET stop == IF OutsideComments(line) = {} THEN Len(line)
                ELSE Min(OutsideComments(line))
    IN  Len(TrimEnd(Substring(line, 0, stop)))
\* the comment-stripped text of the line, at the offsets it has in the line
StrippedPrefix(line) == Substring(line, 0, StrippedEnd(line))

\* C27: the range of a 'Too many fields' Error starts at the offset, in the
\* document line, of the first extra token (token P+1 for P parameters) and
\* ends where the comment-stripped line ends; the range of 'Missing fields'
\* goes from column 0 to the end of the comment-stripped line; for rows at
\* column 0 and for indented rows.
C27_FieldRanges ==
    pc = "scan" =>
        \A k \in 1..Len(diagnostics) :
            LET d == diagnostics[k]
                line == lines[d.line + 1]
            IN  /\ d.kind = "Too many fields" =>
                      /\ d.startCharacter = FieldSpan(StrippedPrefix(line), d.expected)[1]
                      /\ d.endCharacter = StrippedEnd(line)
                /\ d.kind = "Missing fields" =>
                      /\ d.startCharacter = 0
                      /\ d.endCharacter = StrippedEnd(line)

\* the offset, in the line, after the last character of its statement: the
\* statement of a SCRIPT header or of a line starting with `{` is what stands
\* after the first `{`, up to the last `}` if one follows, and the statement
\* of any other line is the line; a comment is no part of it
StatementEnd(line) ==
    LET inline == IsScriptHeaderLine(line) \/ FirstCharIs(line, "{")
        stop == IF inline /\ HasBracePair(line)
                THEN Max({k \in 1..Len(line) : line[k] = "}"}) - 1
                ELSE StrippedEnd(line)
    IN  Len(TrimEnd(Substring(line, 0, Min({stop, StrippedEnd(line)}))))

\* C28: the missing-semicolon Error stands at the column, in the document
\* line, right after the last non-comment character of the statement: for a
\* statement on its own line, for the inline content of a SCRIPT header line
\* or of a one-line block, and for a statement with `//` inside a string.
C28_SemicolonColumn ==
    pc = "scan" =>
        \A k \in 1..Len(diagnostics) :
            LET d == diagnostics[k]
            IN  d.kind = SemicolonKind =>
                   /\ d.startCharacter = StatementEnd(lines[d.line + 1])
                   /\ d.endCharacter = d.startCharacter

\* the line, after leading white space, starts with `</SUBDATA>` in any case
IsSubdataCloseTag(line) ==
    \E a \in 0..(Len(line) - 10) :
        /\ \A k \in 1..a : IsSpace(line[k])
        /\ LowerString(SubSeq(line, a + 1, a + 10)) = KwSubdataClose
\* the line, after leading white space, starts with `<SUBDATA` in any case,
\* white space, and holds a `>` after it
IsSubdataOpenTag(line) ==
    \E a \in 0..(Len(line) - 10) :
        /\ \A k \in 1..a : IsSpace(line[k])
        /\ LowerString(SubSeq(line, a + 1, a + 8)) = KwSubdataOpen
        /\ IsSpace(line[a + 9])
        /\ \E c \in (a + 10)..Len(line) : line[c] = ">"
\* the line is `{` or `}` or has the shape of a `name(` or `DATA(` header
IsBoundaryLine(line) ==
    \/ IsOpenBraceOnly(line)
    \/ IsCloseBraceOnly(line)
    \/ IsDataParenLine(line)
    \/ \E a \in 0..Len(line) :
          /\ \A k \in 1..a : IsSpace(line[k])
          /\ NameEnds(line, a) # {}
\* the lines that decide the scan
IsDecisiveLine(line) ==
    IsSubdataCloseTag(line) \/ IsSubdataOpenTag(line) \/ IsBoundaryLine(line)

\* C29: isInsideSubdataBlock(lines, n) is the verdict of the decisive line
\* nearest to n at or above it: true at an opening SUBDATA tag, false at a
\* closing tag, at `{`, at `}` and at a line of header shape; and false when
\* no line at or above n is decisive.
C29_SubdataScanVerdict ==
    insideSubdata # undefined =>
        LET n == position[1].line
            D == {m \in 0..n : IsDecisiveLine(lines[m + 1])}
        IN  insideSubdata[1] = (D # {} /\ IsSubdataOpenTag(lines[Max(D) + 1]))

\* the case of C29: asked about the second row below a lower-case opening
\* tag, the tracker answers true
C29_Witness ==
    /\ insideSubdata = Some(TRUE)
    /\ position # undefined
    /\ position[1].line >= 2
    /\ lines[position[1].line + 1] = LnRow1
    /\ lines[position[1].line] = LnRow1
    /\ lines[position[1].line - 1] = LnSubOpenLower

\* the lines of ls from line n on, written on one line with a blank at
\* each line break
RECURSIVE JoinedFrom(_, _)
JoinedFrom(ls, n) ==
    IF n + 1 >= Len(ls) THEN ls[n + 1]
    ELSE ls[n + 1] \o <<" ">> \o JoinedFrom(ls, n + 1)
\* the paren depth of s after its first k characters
ParenDepth(s, k) ==
    Cardinality({j \in 1..k : s[j] = "("}) - Cardinality({j \in 1..k : s[j] = ")"})
\* the text of s between its first `(` and the `)` that brings the depth
\* back to zero: <<>> if there is no such `)`, <<text>> if there is
ParenthesizedText(s) ==
    LET opens == {k \in 1..Len(s) : s[k] = "("}
        closes == {k \in 1..Len(s) :
                     /\ opens # {} /\ k > Min(opens)
                     /\ s[k] = ")" /\ ParenDepth(s, k) = 0}
    IN  IF closes = {} THEN <<>>
        ELSE <<SubSeq(s, Min(opens) + 1, Min(closes) - 1)>>

\* C30: for a `name(` header line, extractParameters returns the list that
\* the same lines written on one line give: the text between the first `(`
\* and the `)` that brings the paren depth back to zero, split on commas,
\* trimmed, the empty pieces dropped; and the empty list when that `)` is
\* never found.
C30_ParametersAcrossLines ==
    (/\ paramList # undefined
     /\ \E a \in 0..Len(lines[position[1].line + 1]) :
           /\ \A k \in 1..a : IsSpace(lines[position[1].line + 1][k])
           /\ NameEnds(lines[position[1].line + 1], a) # {}) =>
        LET oneLine == JoinedFrom(lines, position[1].line)
            between == ParenthesizedText(oneLine)
        IN  /\ paramList[1] = extractParameters(<<oneLine>>, 0)
            /\ paramList[1] = (IF between = <<>> THEN <<>>
                               ELSE parseParameters(between[1]))

\* the running parenthesis count after the first k characters of line n,
\* counted from the start of line h: +1 per `(`, -1 per `)`
ParenCountAt(ls, h, n, k) ==
    LET s == Flatten(SubSeq(ls, h + 1, n)) \o SubSeq(ls[n + 1], 1, k)
    IN  Cardinality({j \in 1..Len(s) : s[j] = "("}) - Cardinality({j \in 1..Len(s) : s[j] = ")"})

\* the lines from h on that hold a `)` after which the count is zero
ParenClosedLines(ls, h) ==
    {n \in h..(Len(ls) - 1) :
        \E k \in 1..Len(ls[n + 1]) :
            ls[n + 1][k] = ")" /\ ParenCountAt(ls, h, n, k) = 0}

\* the first of the lines from+1 and from+2 that holds a `{`, as a set
BraceWithinTwo(ls, from) ==
    {k \in (from + 1)..(Len(ls) - 1) :
        /\ k <= from + 2
        /\ HasChar(ls[k + 1], "{")
        /\ \A j \in (from + 1)..(k - 1) : ~HasChar(ls[j + 1], "{")}

\* the opening-brace line of the block whose header is line h, as a set: for
\* a SCRIPT header its own line or one of the next two; for a DATA or function
\* header the line that closes the parameter list or one of the two after it
OpeningBraceLines(ls, h) ==
    IF detectScriptBlock(ls[h + 1], h).type = "script-same-line" THEN {h}
    ELSE IF detectScriptBlock(ls[h + 1], h).type = "script-next-line"
    THEN BraceWithinTwo(ls, h)
    ELSE IF detectDataBlock(ls[h + 1]).type # "none" /\ ParenClosedLines(ls, h) # {}
    THEN LET p == Min(ParenClosedLines(ls, h))
         IN  IF HasChar(ls[p + 1], "{") THEN {p} ELSE BraceWithinTwo(ls, p)
    ELSE {}

\* the SCRIPT blocks that open and close on their header line
IsOneLineScript(ls, h) ==
    /\ detectScriptBlock(ls[h + 1], h).type = "script-same-line"
    /\ detectScriptBlock(ls[h + 1], h).isComplete

IsFoldHeader(ls, h) ==
    \/ detectScriptBlock(ls[h + 1], h).type # "none"
    \/ detectDataBlock(ls[h + 1]).type # "none"

C32_SkippedLines ==
    [][/\ (/\ Scanning
           /\ IsBlankLine(lines[i + 1]) \/ IsCommentLine(lines[i + 1])) =>
              /\ diagnostics' = diagnostics
              /\ UNCHANGED <<insideScriptBlock, insideDataBlock, currentDataBlockInfo,
                             unclosedScriptBlock, unclosedDataBlock>>
       /\ pc = "scan" =>
              \A k \in 1..Len(diagnostics') :
                  LET line == lines[diagnostics'[k].line + 1]
                  IN  ~IsBlankLine(line) /\ ~IsCommentLine(line)
    ]_vars

\* the case of C32: an indented comment has been passed inside a DATA block
\* with its header stored, its marker pending and a diagnostic already pushed
C32_Witness ==
    /\ pc = "scan"
    /\ i >= 3
    /\ lines[i] = LnCommentIndented
    /\ insideDataBlock
    /\ currentDataBlockInfo # undefined
    /\ unclosedDataBlock # undefined
    /\ diagnostics # <<>>

\* C33: at every point of a scan insideScript and insideData are never both
\* true; unclosedScript is set exactly when insideScript is true; unclosedData
\* is set only when insideData is true and a currentHeader is stored;
\* currentHeader is never set while insideScript is true; at most one of the
\* two markers is pending.
C33_RunningState ==
    /\ ~(insideScriptBlock /\ insideDataBlock)
    /\ (unclosedScriptBlock # undefined) <=> insideScriptBlock
    /\ unclosedDataBlock # undefined =>
           insideDataBlock /\ currentDataBlockInfo # undefined
    /\ insideScriptBlock => currentDataBlockInfo = undefined
    /\ ~(unclosedScriptBlock # undefined /\ unclosedDataBlock # undefined)

\* the case of C33: a scan that has been inside a SCRIPT block and has left
\* it is inside a DATA block with its header stored and its marker pending
C33_Witness ==
    /\ pc = "scan"
    /\ \E k \in 1..i : lines[k] \in {LnScriptOpen, LnScriptBare}
    /\ insideDataBlock
    /\ currentDataBlockInfo # undefined
    /\ unclosedDataBlock # undefined
    /\ unclosedScriptBlock = undefined

\* the number of maximal runs of characters of the line that are not white
\* space
WordCount(line) ==
    Cardinality({k \in 1..Len(line) :
                    ~IsSpace(line[k]) /\ (k = 1 \/ IsSpace(line[k - 1]))})

\* C34: a "missing a closing brace" Error is pushed only while a SCRIPT header
\* line is processed or at the end of the scan.  A line of header shape is
\* taken as a header only in state Idle, where both markers are empty, so the
\* flush of a DATA/function header pushes nothing; met in state InData it is
\* processed as a data row (its fields are counted against the stored header)
\* and replaces neither the header nor a flag or marker.
C34_UnclosedOnlyAtScriptHeader ==
    [][Scanning =>
        LET line == lines[i + 1]
        IN  /\ (\E k \in 1..Len(Pushed) : Pushed[k].kind \in UnclosedKinds) =>
                  IsScriptHeaderLine(line)
            /\ (IsBlockHeaderLine(line) /\ ~insideScriptBlock /\ ~insideDataBlock) =>
                  /\ unclosedScriptBlock = undefined
                  /\ unclosedDataBlock = undefined
                  /\ diagnostics' = diagnostics
            /\ (IsBlockHeaderLine(line) /\ insideDataBlock) =>
                  /\ UNCHANGED <<insideScriptBlock, insideDataBlock, currentDataBlockInfo,
                                 unclosedScriptBlock, unclosedDataBlock>>
                  /\ SubSeq(diagnostics', 1, Len(diagnostics)) = diagnostics
                  /\ \A k \in 1..Len(Pushed) :
                         /\ Pushed[k].kind \in FieldKinds
                         /\ Pushed[k].line = i
                  /\ (/\ currentDataBlockInfo # undefined
                      /\ ~HasChar(line, "\"") /\ ~HasChar(line, "/") /\ ~HasChar(line, "<")) =>
                         LET expected == Len(currentDataBlockInfo[1].parameters)
                         IN  /\ Pushed # <<>> <=> WordCount(line) # expected
                             /\ \A k \in 1..Len(Pushed) :
                                    /\ Pushed[k].expected = expected
                                    /\ Pushed[k].found = WordCount(line)
    ]_vars

\* the case of C34: the header `Bus (A, B) {` met inside the unclosed DATA
\* block of `Bus (A, B)` was counted as a row of four fields against two, and
\* the block's header and marker are still in place
C34_Witness ==
    /\ pc = "scan"
    /\ i = 3
    /\ lines[1] = LnHeader
    /\ lines[2] = LnOpen
    /\ lines[3] = LnHeaderBrace
    /\ insideDataBlock
    /\ unclosedDataBlock = Some([line |-> 1, name |-> <<"B","u","s">>])
    /\ currentDataBlockInfo =
          Some([blockName |-> <<"B","u","s">>, parameters |-> << <<"A">>, <<"B">> >>])
    /\ Len(diagnostics) = 1
    /\ diagnostics[1].kind = "Too many fields"
    /\ diagnostics[1].found = 4

\* C35: a call of validateDocument for a document writes only the entry of
\* the diagnostic collection keyed by that document's URI: whatever the order
\* of the calls for several documents, the set stored for another document is
\* left as it is.
C35_WritesOwnEntryOnly ==
    [][\A u \in Uris :
           diagnosticCollection'[u] # diagnosticCollection[u] =>
               /\ pc = "scan"
               /\ document = Some(u)
               /\ \A v \in Uris \ {u} : diagnosticCollection'[v] = diagnosticCollection[v]
    ]_vars

\* the case of C35: b.aux was validated, then a.aux with a different result;
\* the set stored for b.aux is still the one of its own call
C35_Witness ==
    /\ pc = "idle"
    /\ Len(calls) >= 2
    /\ calls[Len(calls) - 1].uri = "b.aux"
    /\ calls[Len(calls)].uri = "a.aux"
    /\ calls[Len(calls) - 1].diagnostics # <<>>
    /\ calls[Len(calls)].diagnostics # calls[Len(calls) - 1].diagnostics
    /\ diagnosticCollection["b.aux"] = Some(calls[Len(calls) - 1].diagnostics)
    /\ diagnosticCollection["a.aux"] = Some(calls[Len(calls)].diagnostics)

\* C36: after activation and any sequence of open and change events, every
\* document of language powerworld-aux that was open at activation, opened or
\* changed has a stored diagnostic set equal to the analysis of its latest
\* content; and no set is ever stored for a document of another language.
C36_StoredForLatestContent ==
    /\ \A u \in Uris :
           languageId(u) # "powerworld-aux" => diagnosticCollection[u] = undefined
    /\ (pc = "idle" /\ textDocuments = <<>>) =>
           \A u \in Uris :
               (languageId(u) = "powerworld-aux" /\ documents[u] # undefined) =>
                   diagnosticCollection[u] = Some(Analyze(documents[u][1]))

\* the case of C36: a.aux and b.aux were open at activation and validated on
\* their unsaved text, c.txt is open, and a.aux was then edited and validated
\* again with another result
C36_Witness ==
    /\ pc = "idle"
    /\ textDocuments = <<>>
    /\ Len(calls) = 3
    /\ calls[1].buffer = <<LnHeader, LnOpen, LnRow1>>
    /\ calls[2].buffer = <<LnHeader, LnOpen, LnRow1>>
    /\ calls[1].uri # calls[2].uri
    /\ calls[3].uri = "a.aux"
    /\ calls[3].buffer = documents["a.aux"][1]
    /\ calls[3].diagnostics # calls[1].diagnostics
    /\ documents["c.txt"] # undefined
    /\ diagnosticCollection["a.aux"] = Some(calls[3].diagnostics)

\* C37: for every buffer and line, findDataBlockHeader, extractParameters,
\* parseParameters, parseDataLine and isInsideSubdataBlock of
\* PowerWorldDataFieldHoverProvider return what the methods of the same name
\* of PowerWorldValidationProvider return.
C37_HelperCopiesAgree ==
    helperResults # undefined =>
        /\ helperResults[1].hover.findDataBlockHeader =
               helperResults[1].validation.findDataBlockHeader
        /\ helperResults[1].hover.extractParameters =
               helperResults[1].validation.extractParameters
        /\ helperResults[1].hover.parseParameters =
               helperResults[1].validation.parseParameters
        /\ helperResults[1].hover.parseDataLine =
               helperResults[1].validation.parseDataLine
        /\ helperResults[1].hover.isInsideSubdataBlock =
               helperResults[1].validation.isInsideSubdataBlock

\* the case of C37: asked about a row with a quoted field, below an opening
\* SUBDATA tag, in the block of a header written over two lines, the hover
\* provider's helpers find the header and its parameters, two fields, and
\* answer that the row is inside SUBDATA
C37_Witness ==
    /\ helperResults # undefined
    /\ helperResults[1].line = 3
    /\ lines = <<LnListOpen, LnListClose, LnSubOpen, LnRow2>>
    /\ helperResults[1].hover.isInsideSubdataBlock
    /\ helperResults[1].hover.findDataBlockHeader =
           Some([blockName |-> <<"B","u","s">>, parameters |-> << <<"A">>, <<"C">> >>])
    /\ Len(helperResults[1].hover.parseDataLine) = 2

=============================================================================
